---- MODULE Spec2Model ----
(***************************************************************************)
(* A model of highext:                                                     *)
(*   src/src/extractor.py       HighlightExtractor (scope, page loop,      *)
(*                              annotation normalizer, text recovery)      *)
(*   src/src/utils.py           rgb_to_color_name, rgb_to_hex,             *)
(*                              group_highlights, format_json_output       *)
(*   src/src/notion_exporter.py NotionExporter.export, _generate_markdown  *)
(*   src/src/xmind_exporter.py  XMindExporter.export                       *)
(*   src/src/tui.py             PDFExtractorApp.run_extraction             *)
(*   src/src/cli.py             main                                       *)
(*                                                                         *)
(* Conventions.  Colour components are integers in hundredths (100 is the  *)
(* float 1.0).  Integer arithmetic on hundredths decides a comparison of   *)
(* squared distances as double arithmetic does except where two distances  *)
(* are equal in hundredths and a table value that is no binary fraction is *)
(* involved: at (0.75, 1.0, 0.25) Yellow and Light Orange are both at      *)
(* 0.125 in decimals and Light Orange is the nearer in doubles.  The       *)
(* colour inputs below are levels on which the two agree.  A text is a     *)
(* sequence of one-character strings.                                      *)
(* The PDF library is an environment: what a page,                         *)
(* an annotation attribute or a page-text query answers is drawn from the  *)
(* input sets below, a raised exception being one of the answers.          *)
(***************************************************************************)
EXTENDS Integers, Sequences, FiniteSets, TLC

VARIABLES
    pc,               \* where the run of extract_highlights_from_pdf stands
    doc,              \* self.doc: [state, pages]
    close_count,      \* calls of doc.close()
    exc,              \* the exception propagating out of the run, or "none"
    page_num,         \* the loop variable of extract_highlights (0-based)
    highlights,       \* the list of extract_highlights
    page_highlights,  \* the list of _extract_page_highlights
    seen,             \* history: the annotations enumerated so far, with their page
    failed_pages,     \* history: the pages whose enumeration raised
    result,           \* the returned ExtractionResult, or Nothing
    cpc,              \* where the run of rgb_to_color_name stands
    rgb,              \* its argument
    closest_name,     \* its return value
    hex,              \* the return value of rgb_to_hex
    npc,              \* where the call of a method on one annotation stands
    annotation,       \* the annotation it is given
    nret,             \* its return value
    fpc,              \* where the call of a formatter stands
    formatter,        \* the function called
    data,             \* its ExtractionResult argument, as it was passed
    passed,           \* the mapping object passed, as the call left it
    group_by,         \* its group_by argument
    pretty,           \* the pretty argument of format_json_output
    ret,              \* its return value
    files,            \* the output files: path :> content
    fexc,             \* the exception it raised, or "none"
    spc,              \* where a caller session (TUI or CLI) stands
    requested,        \* the export formats it asks for
    failed,           \* history: the steps of the session that raised
    exit_code         \* what main returned, -1 before it returns

vars == <<pc, doc, close_count, exc, page_num, highlights, page_highlights,
          seen, failed_pages, result, cpc, rgb, closest_name, hex,
          npc, annotation, nret,
          fpc, formatter, data, passed, group_by, pretty, ret, files, fexc,
          spc, requested, failed, exit_code>>

extractor_vars == <<pc, doc, close_count, exc, page_num, highlights,
                    page_highlights, seen, failed_pages, result>>

classifier_vars == <<cpc, rgb, closest_name, hex>>

normalizer_vars == <<npc, annotation, nret>>

formatter_vars ==
    <<fpc, formatter, data, passed, group_by, pretty, ret, files, fexc>>

\* What the extraction run leaves alone.
session_vars == <<spc, requested, failed, exit_code>>

outside_extractor ==
    <<classifier_vars, normalizer_vars, formatter_vars, session_vars>>

(***************************************************************************)
(* Bounds of the model.                                                    *)
(***************************************************************************)
\* Pages of the largest document.
MaxPages == 2

\* Annotations the page enumerations of one run yield in total.
MaxAnnots == 2

\* Components of the longest argument of rgb_to_color_name.
MaxComps == 4

(***************************************************************************)
(* Python values.                                                          *)
(***************************************************************************)
\* Python's None in an optional string field (author, created).
PyNone == "None"

\* str.isspace for one character.
IsSpace(c) == c \in {" ", "\n", "\t"}

RECURSIVE lstrip(_)
lstrip(s) ==
    IF s = <<>> THEN <<>>
    ELSE IF IsSpace(Head(s)) THEN lstrip(Tail(s)) ELSE s

RECURSIVE rstrip(_)
rstrip(s) ==
    IF s = <<>> THEN <<>>
    ELSE IF IsSpace(s[Len(s)]) THEN rstrip(SubSeq(s, 1, Len(s) - 1)) ELSE s

\* strip without the trailing side.
strip_leading_only(s) == lstrip(s)

\* str.strip(): leading and trailing whitespace removed.
strip(s) == rstrip(lstrip(s))

RECURSIVE join_concatenating(_, _)
\* join with the separator left out.
join_concatenating(sep, parts) ==
    IF parts = <<>> THEN <<>>
    ELSE parts[1] \o join_concatenating(sep, Tail(parts))

RECURSIVE join(_, _)
\* sep.join(parts)
join(sep, parts) ==
    IF parts = <<>> THEN <<>>
    ELSE IF Len(parts) = 1 THEN parts[1]
    ELSE parts[1] \o sep \o join(sep, Tail(parts))

Min4(a, b, c, d) ==
    LET S == {a, b, c, d} IN CHOOSE m \in S : \A x \in S : m <= x

Max4(a, b, c, d) ==
    LET S == {a, b, c, d} IN CHOOSE m \in S : \A x \in S : m >= x

Min3(a, b, c) == Min4(a, a, b, c)

Max3(a, b, c) == Max4(a, a, b, c)

(***************************************************************************)
(* utils.rgb_to_color_name                                                 *)
(***************************************************************************)
\* The reference table, in the insertion order of the dict.
known_colors == <<
    [name |-> "Yellow",       rgb |-> <<100, 100, 0>>],
    [name |-> "Red",          rgb |-> <<100, 0, 0>>],
    [name |-> "Green",        rgb |-> <<0, 100, 0>>],
    [name |-> "Blue",         rgb |-> <<0, 0, 100>>],
    [name |-> "Orange",       rgb |-> <<100, 50, 0>>],
    [name |-> "Magenta",      rgb |-> <<100, 0, 100>>],
    [name |-> "Cyan",         rgb |-> <<0, 100, 100>>],
    [name |-> "Purple",       rgb |-> <<50, 0, 50>>],
    [name |-> "Pink",         rgb |-> <<100, 75, 80>>],
    [name |-> "Light Yellow", rgb |-> <<100, 98, 60>>],
    [name |-> "Light Green",  rgb |-> <<60, 100, 60>>],
    [name |-> "Light Blue",   rgb |-> <<60, 80, 100>>],
    [name |-> "Light Pink",   rgb |-> <<100, 70, 70>>],
    [name |-> "Light Purple", rgb |-> <<80, 60, 80>>],
    [name |-> "Light Orange", rgb |-> <<100, 80, 40>>],
    [name |-> "Light Gray",   rgb |-> <<90, 90, 90>>],
    [name |-> "Dark Red",     rgb |-> <<50, 0, 0>>],
    [name |-> "Dark Green",   rgb |-> <<0, 50, 0>>],
    [name |-> "Dark Blue",    rgb |-> <<0, 0, 50>>],
    [name |-> "Gray",         rgb |-> <<50, 50, 50>>],
    [name |-> "Black",        rgb |-> <<0, 0, 0>>],
    [name |-> "White",        rgb |-> <<100, 100, 100>>],
    [name |-> "Teal",         rgb |-> <<0, 50, 50>>],
    [name |-> "Olive",        rgb |-> <<50, 50, 0>>],
    [name |-> "Maroon",       rgb |-> <<50, 0, 0>>],
    [name |-> "Navy",         rgb |-> <<0, 0, 50>>],
    [name |-> "Lime",         rgb |-> <<0, 100, 0>>],
    [name |-> "Gold",         rgb |-> <<100, 84, 0>>],
    [name |-> "Salmon",       rgb |-> <<98, 50, 45>>],
    [name |-> "Sky Blue",     rgb |-> <<53, 81, 92>>]
>>

grayscale_names == {"Gray", "Light Gray", "Black", "White"}

\* 0.15, the saturation above which an input counts as chromatic.
SaturationThreshold == 15

\* saturation >= 0.15
is_chromatic_inclusive(r, g, b) ==
    Max3(r, g, b) - Min3(r, g, b) >= SaturationThreshold

\* saturation > 0.15
is_chromatic(r, g, b) == Max3(r, g, b) - Min3(r, g, b) > SaturationThreshold

\* The differences summed without being squared.
dist_unsquared(r, g, b, c) ==
    LET abs(x) == IF x < 0 THEN -x ELSE x
    IN abs(r - c[1]) + abs(g - c[2]) + abs(b - c[3])

\* (r - cr) ** 2 + (g - cg) ** 2 + (b - cb) ** 2
dist(r, g, b, c) ==
    (r - c[1]) * (r - c[1]) + (g - c[2]) * (g - c[2]) + (b - c[3]) * (b - c[3])

\* `if not rgb or len(rgb) < 3`; rgb is [none |-> BOOLEAN, comps |-> sequence].
rgb_missing(v) == v.none \/ v.comps = <<>> \/ Len(v.comps) < 3

RECURSIVE closest_from_last(_, _, _, _, _, _)
\* closest_from with `dist <= min_dist`: the last minimum wins.
closest_from_last(i, r, g, b, min_dist, name) ==
    IF i > Len(known_colors) THEN name
    ELSE LET e == known_colors[i]
             d == dist(r, g, b, e.rgb)
         IN IF is_chromatic(r, g, b) /\ e.name \in grayscale_names
            THEN closest_from_last(i + 1, r, g, b, min_dist, name)
            ELSE IF min_dist = -1 \/ d <= min_dist
                 THEN closest_from_last(i + 1, r, g, b, d, e.name)
                 ELSE closest_from_last(i + 1, r, g, b, min_dist, name)

RECURSIVE closest_from(_, _, _, _, _, _)
\* The loop over known_colors.items() from entry i on; min_dist = -1 stands
\* for float('inf').
closest_from(i, r, g, b, min_dist, name) ==
    IF i > Len(known_colors) THEN name
    ELSE LET e == known_colors[i]
             d == dist(r, g, b, e.rgb)
         IN IF is_chromatic(r, g, b) /\ e.name \in grayscale_names
            THEN closest_from(i + 1, r, g, b, min_dist, name)
            ELSE IF min_dist = -1 \/ d < min_dist
                 THEN closest_from(i + 1, r, g, b, d, e.name)
                 ELSE closest_from(i + 1, r, g, b, min_dist, name)

rgb_to_color_name(v) ==
    IF rgb_missing(v) THEN "unknown"
    ELSE closest_from(1, v.comps[1], v.comps[2], v.comps[3], -1, "Gray")

(***************************************************************************)
(* The raw annotation, as the PDF library surfaces it.                     *)
(*   raises     the attributes whose read raises, among                    *)
(*              "type", "vertices", "rect", "colors", "info"               *)
(*   type       annot.type[0], the kind code                               *)
(*   vertices   [none, pts]: None, or the list of points <<x, y>>          *)
(*   rect       <<x0, y0, x1, y1>>                                         *)
(*   colors     [stroke, fill], each [tag, comps] with tag "absent" (no    *)
(*              such key), "none" (None), "dict" (a mapping) or "seq"      *)
(*   info       [keys, title, subject, creationDate]                       *)
(*   page_text  what page.get_text answers for a clip rectangle: entries   *)
(*              [clip, out], out = [raises, text]; no text elsewhere       *)
(*   retry_text what page.get_text answers to the query of the except      *)
(*              branch of _get_highlight_text                              *)
(***************************************************************************)
\* The kind code of a highlight annotation.
HighlightType == 8

Returns(t) == [raises |-> FALSE, text |-> t]

Raises == [raises |-> TRUE, text |-> <<>>]

\* page.get_text("text", clip=clip)
get_text(annot, clip) ==
    LET hits == {i \in 1..Len(annot.page_text) : annot.page_text[i].clip = clip}
    IN IF hits = {} THEN Returns(<<>>)
       ELSE annot.page_text[CHOOSE i \in hits : \A j \in hits : i <= j].out

\* fitz.Rect(min(xs), min(ys), max(xs), max(ys)) of the four points of a quad.
quad_rect(quad) ==
    << Min4(quad[1][1], quad[2][1], quad[3][1], quad[4][1]),
       Min4(quad[1][2], quad[2][2], quad[3][2], quad[4][2]),
       Max4(quad[1][1], quad[2][1], quad[3][1], quad[4][1]),
       Max4(quad[1][2], quad[2][2], quad[3][2], quad[4][2]) >>

(***************************************************************************)
(* extractor.HighlightExtractor._get_highlight_text                        *)
(***************************************************************************)
RECURSIVE quad_parts(_, _, _)
\* `for i in range(0, len(vertices), 4)` from index i (0-based) on:
\* [raised, parts].
quad_parts(annot, i, text_parts) ==
    LET vertices == annot.vertices.pts IN
    IF i >= Len(vertices) THEN [raised |-> FALSE, parts |-> text_parts]
    ELSE IF i + 3 < Len(vertices)
         THEN LET quad == SubSeq(vertices, i + 1, i + 4)
                  out  == get_text(annot, quad_rect(quad))
              IN IF out.raises THEN [raised |-> TRUE, parts |-> text_parts]
                 ELSE IF strip(out.text) # <<>>
                      THEN quad_parts(annot, i + 4, Append(text_parts, strip(out.text)))
                      ELSE quad_parts(annot, i + 4, text_parts)
         ELSE quad_parts(annot, i + 4, text_parts)

\* primary_text with the fragments gathered before a raising quad returned.
primary_text_keeping_fragments(annot) ==
    IF "vertices" \in annot.raises THEN [raised |-> TRUE, text |-> <<>>]
    ELSE LET vertices == annot.vertices
             quads == IF ~vertices.none /\ vertices.pts # <<>> /\ Len(vertices.pts) >= 4
                      THEN quad_parts(annot, 0, <<>>)
                      ELSE [raised |-> FALSE, parts |-> <<>>]
         IN IF quads.parts # <<>>
            THEN [raised |-> FALSE, text |-> join(<<" ">>, quads.parts)]
            ELSE IF quads.raised \/ "rect" \in annot.raises
                 THEN [raised |-> TRUE, text |-> <<>>]
                 ELSE LET out == get_text(annot, annot.rect)
                      IN IF out.raises THEN [raised |-> TRUE, text |-> <<>>]
                         ELSE [raised |-> FALSE, text |-> strip(out.text)]

\* The try block: [raised, text].
primary_text(annot) ==
    IF "vertices" \in annot.raises THEN [raised |-> TRUE, text |-> <<>>]
    ELSE LET vertices == annot.vertices
             quads == IF ~vertices.none /\ vertices.pts # <<>> /\ Len(vertices.pts) >= 4
                      THEN quad_parts(annot, 0, <<>>)
                      ELSE [raised |-> FALSE, parts |-> <<>>]
         IN IF quads.raised THEN [raised |-> TRUE, text |-> <<>>]
            ELSE IF quads.parts # <<>>
                 THEN [raised |-> FALSE, text |-> join(<<" ">>, quads.parts)]
                 ELSE IF "rect" \in annot.raises
                      THEN [raised |-> TRUE, text |-> <<>>]
                      ELSE LET out == get_text(annot, annot.rect)
                           IN IF out.raises THEN [raised |-> TRUE, text |-> <<>>]
                              ELSE IF strip(out.text) # <<>>
                                   THEN [raised |-> FALSE,
                                         text |-> join(<<" ">>, <<strip(out.text)>>)]
                                   ELSE [raised |-> FALSE, text |-> join(<<" ">>, <<>>)]

\* fallback_text without .strip().
fallback_text_untrimmed(annot) ==
    IF "rect" \in annot.raises \/ annot.retry_text.raises THEN <<>>
    ELSE annot.retry_text.text

\* The except branch: the bounding rectangle once more, else "".
fallback_text(annot) ==
    IF "rect" \in annot.raises \/ annot.retry_text.raises THEN <<>>
    ELSE strip(annot.retry_text.text)

get_highlight_text(annot) ==
    LET p == primary_text(annot)
    IN IF p.raised THEN fallback_text(annot) ELSE p.text

(***************************************************************************)
(* extractor.HighlightExtractor._extract_highlight_data                    *)
(***************************************************************************)
Seq3(a, b, c) == [tag |-> "seq", comps |-> <<a, b, c>>]

\* [1.0, 1.0, 0.0]
DefaultYellow == Seq3(100, 100, 0)

\* annot.colors.get("stroke"), then .get("fill", default), then the dict test.
resolved_color(colors) ==
    LET stroke == IF colors.stroke.tag = "absent"
                  THEN [tag |-> "none", comps |-> <<>>]
                  ELSE colors.stroke
        color  == IF stroke.tag = "none"
                  THEN IF colors.fill.tag = "absent" THEN DefaultYellow
                       ELSE colors.fill
                  ELSE stroke
    IN IF color.tag = "dict" THEN DefaultYellow ELSE color

\* three_components without `color = color[:3]`.
three_components_untruncated(comps) ==
    IF Len(comps) < 3
    THEN IF Len(comps) = 1
         THEN <<comps[1], comps[1], comps[1]>>
         ELSE comps \o [i \in 1..(3 - Len(comps)) |-> 0]
    ELSE comps

\* three_components with a single component padded like a pair.
three_components_zero_padded(comps) ==
    SubSeq(IF Len(comps) < 3
           THEN comps \o [i \in 1..(3 - Len(comps)) |-> 0]
           ELSE comps, 1, 3)

\* `if len(color) < 3: ...` and `color = color[:3]`, on the components.
three_components(comps) ==
    LET padded == IF Len(comps) < 3
                  THEN IF Len(comps) = 1
                       THEN <<comps[1], comps[1], comps[1]>>
                       ELSE comps \o [i \in 1..(3 - Len(comps)) |-> 0]
                  ELSE comps
    IN SubSeq(padded, 1, 3)

\* info.get("title") or info.get("subject") or None
author_of(info) ==
    IF "title" \in info.keys /\ info.title # "" THEN info.title
    ELSE IF "subject" \in info.keys /\ info.subject # "" THEN info.subject
    ELSE PyNone

\* info["creationDate"] when the key is there
created_of(info) ==
    IF "creationDate" \in info.keys THEN info.creationDate ELSE PyNone

Nothing == [none |-> TRUE]

\* The normalized highlight, or Nothing (Python's None).
extract_highlight_data(annot, page) ==
    LET text == get_highlight_text(annot) IN
    IF text = <<>> \/ strip(text) = <<>> THEN Nothing
    ELSE IF "colors" \in annot.raises THEN Nothing
    ELSE LET color == resolved_color(annot.colors) IN
         IF color.tag = "none" THEN Nothing          \* len(None) raises
         ELSE IF "rect" \in annot.raises \/ "info" \in annot.raises THEN Nothing
         ELSE [none |-> FALSE,
               h |-> [page       |-> page,
                      text       |-> strip(text),
                      color      |-> three_components(color.comps),
                      color_name |-> rgb_to_color_name(
                                        [none |-> FALSE,
                                         comps |-> three_components(color.comps)]),
                      rect       |-> annot.rect,
                      author     |-> author_of(annot.info),
                      created    |-> created_of(annot.info)]]

\* annot_step with a failing annotation ending the page's list.
annot_step_abort(page_hl, annot, page) ==
    IF "type" \in annot.raises THEN <<>>
    ELSE IF annot.type = HighlightType
         THEN LET highlight_data == extract_highlight_data(annot, page)
              IN IF highlight_data.none THEN <<>>
                 ELSE Append(page_hl, highlight_data.h)
         ELSE page_hl

\* annot_step without the test of the kind code.
annot_step_any_kind(page_hl, annot, page) ==
    IF "type" \in annot.raises THEN page_hl
    ELSE LET highlight_data == extract_highlight_data(annot, page)
         IN IF highlight_data.none THEN page_hl
            ELSE Append(page_hl, highlight_data.h)

\* annot_step with the new highlight put first.
annot_step_prepend(page_hl, annot, page) ==
    IF "type" \in annot.raises THEN page_hl
    ELSE IF annot.type = HighlightType
         THEN LET highlight_data == extract_highlight_data(annot, page)
              IN IF highlight_data.none THEN page_hl
                 ELSE <<highlight_data.h>> \o page_hl
         ELSE page_hl

\* The body of the loop over the annotations of a page: the list after it.
annot_step(page_hl, annot, page) ==
    IF "type" \in annot.raises THEN page_hl
    ELSE IF annot.type = HighlightType
         THEN LET highlight_data == extract_highlight_data(annot, page)
              IN IF highlight_data.none THEN page_hl
                 ELSE Append(page_hl, highlight_data.h)
         ELSE page_hl

(***************************************************************************)
(* The annotations a page enumeration may yield.                           *)
(***************************************************************************)
RectA == <<10, 20, 30, 22>>

NoVertices == [none |-> FALSE, pts |-> <<>>]

Absent == [tag |-> "absent", comps |-> <<>>]

NoneColor == [tag |-> "none", comps |-> <<>>]

NoInfo == [keys |-> {}, title |-> "", subject |-> "", creationDate |-> ""]

\* A highlight whose bounding rectangle holds text t, stroke colour given.
Plain(t, stroke) ==
    [raises     |-> {},
     type       |-> HighlightType,
     vertices   |-> NoVertices,
     rect       |-> RectA,
     colors     |-> [stroke |-> stroke, fill |-> Absent],
     info       |-> NoInfo,
     page_text  |-> << [clip |-> RectA, out |-> Returns(t)] >>,
     retry_text |-> Returns(t)]

Yellow == Seq3(100, 100, 0)

\* Two quads and a trailing incomplete chunk; the second quad holds no text.
QuadPoints ==
    << <<10, 20>>, <<30, 20>>, <<10, 21>>, <<30, 21>>,
       <<10, 21>>, <<25, 21>>, <<10, 22>>, <<25, 22>>,
       <<0, 0>>, <<1, 1>> >>

AnnotInputs ==
    { \* sound highlights, the recovered text padded with whitespace
      Plain(<<"a", "\n">>, Yellow),
      [Plain(<<" ", "b", " ">>, Seq3(0, 100, 0)) EXCEPT
          !.info = [keys |-> {"title", "creationDate"}, title |-> "ann",
                    subject |-> "", creationDate |-> "D:2024"]],
      \* a Text annotation, and one whose kind cannot be read
      [Plain(<<"a">>, Yellow) EXCEPT !.type = 1],
      [Plain(<<"a">>, Yellow) EXCEPT !.raises = {"type"}],
      \* whitespace only under the highlight
      Plain(<<" ", "\n">>, Yellow),
      \* every page-text query raises
      [Plain(<<"a">>, Yellow) EXCEPT
          !.page_text = << [clip |-> RectA, out |-> Raises] >>,
          !.retry_text = Raises],
      \* the first query raises, the retry answers
      [Plain(<<"a">>, Yellow) EXCEPT
          !.page_text = << [clip |-> RectA, out |-> Raises] >>,
          !.retry_text = Returns(<<"c", "\n">>)],
      \* the text comes from the quads, not from the bounding rectangle
      [Plain(<<"z">>, Yellow) EXCEPT
          !.vertices = [none |-> FALSE, pts |-> QuadPoints],
          !.page_text = << [clip |-> <<10, 20, 30, 21>>,
                            out |-> Returns(<<"d", " ", "e", "\n">>)],
                           [clip |-> RectA, out |-> Returns(<<"z">>)] >>],
      \* colors = {"stroke": None, "fill": None}
      [Plain(<<"a">>, Yellow) EXCEPT
          !.colors = [stroke |-> NoneColor, fill |-> NoneColor]],
      \* a grayscale stroke, and a 4-component stroke out of [0, 1]
      Plain(<<"a">>, [tag |-> "seq", comps |-> <<50>>]),
      Plain(<<"a">>, [tag |-> "seq", comps |-> <<150, 50, -20, 0>>]) }

(***************************************************************************)
(* extractor.extract_highlights_from_pdf: the scope of a HighlightExtractor *)
(* around one call of extract_highlights.                                  *)
(***************************************************************************)
NoDoc == [state |-> "none", pages |-> 0]

\* An ExtractionResult without highlights.
NoData == [source_file |-> "", source_path |-> "", total_pages |-> 0,
           total_highlights |-> 0, highlights |-> <<>>]

\* No such file; a file written before the call, holding what its kind of
\* file holds: a mind map, Markdown lines, or JSON text.
NoFile == [exists |-> FALSE, content |-> <<>>]

OldFile(p) ==
    [exists  |-> TRUE,
     content |-> CASE p = "out.xmind" ->
                        [title     |-> <<"old">>,
                         rootTopic |-> [title |-> <<"old">>, hex |-> <<>>,
                                        children |-> <<>>]]
                   [] p = "out.md"    -> << <<"old">> >>
                   [] OTHER           -> << [t |-> "str", v |-> "old"] >>]

\* The output paths of the exporters.
Paths == {"out.json", "out.xmind", "out.md"}

\* No method is called on a single annotation.
NormalizerIdle ==
    /\ npc = "idle"
    /\ annotation = Nothing
    /\ nret = Nothing

\* No formatter is called.
FormatterIdle ==
    /\ fpc = "idle"
    /\ formatter = ""
    /\ data = NoData
    /\ passed = PyNone
    /\ group_by = PyNone
    /\ pretty = FALSE
    /\ ret = <<>>
    /\ files = [p \in Paths |-> NoFile]
    /\ fexc = "none"

\* No session runs.
SessionIdle ==
    /\ spc = "idle"
    /\ requested = {}
    /\ failed = {}
    /\ exit_code = -1

\* bool(self.doc): None is false; a Document has __len__ and no __bool__,
\* so its truth value is len(doc) != 0.
Truthy(d) == d.state # "none" /\ d.pages # 0

Init ==
    /\ pc = "start"
    /\ doc = NoDoc
    /\ close_count = 0
    /\ exc = "none"
    /\ page_num = 0
    /\ highlights = <<>>
    /\ page_highlights = <<>>
    /\ seen = <<>>
    /\ failed_pages = {}
    /\ result = Nothing
    /\ cpc = "idle"
    /\ rgb = [none |-> TRUE, comps |-> <<>>]
    /\ closest_name = ""
    /\ hex = <<>>
    /\ FormatterIdle
    /\ SessionIdle
    /\ NormalizerIdle

\* __enter__: fitz.open returns a document.
Enter ==
    /\ pc = "start"
    /\ \E n \in 0..MaxPages : doc' = [state |-> "open", pages |-> n]
    /\ pc' = "scope"
    /\ UNCHANGED <<close_count, exc, page_num, highlights, page_highlights,
                   seen, failed_pages, result>>
    /\ UNCHANGED outside_extractor

\* __enter__: fitz.open raises; the scope is never entered.
EnterFails ==
    /\ pc = "start"
    /\ exc' = "OpenError"
    /\ pc' = "done"
    /\ UNCHANGED <<doc, close_count, page_num, highlights, page_highlights,
                   seen, failed_pages, result>>
    /\ UNCHANGED outside_extractor

\* extract_highlights: `if not self.doc: raise RuntimeError`.
ExtractNotOpened ==
    /\ pc = "scope"
    /\ ~Truthy(doc)
    /\ exc' = "RuntimeError"
    /\ pc' = "exit"
    /\ UNCHANGED <<doc, close_count, page_num, highlights, page_highlights,
                   seen, failed_pages, result>>
    /\ UNCHANGED outside_extractor

\* extract_highlights up to the page loop.
ExtractBegin ==
    /\ pc = "scope"
    /\ Truthy(doc)
    /\ highlights' = <<>>
    /\ page_num' = 0
    /\ pc' = "pages"
    /\ UNCHANGED <<doc, close_count, exc, page_highlights, seen, failed_pages,
                   result>>
    /\ UNCHANGED outside_extractor

\* page = self.doc[page_num], and the first line of _extract_page_highlights.
LoadPage ==
    /\ pc = "pages"
    /\ page_num < doc.pages
    /\ page_highlights' = <<>>
    /\ pc' = "annots"
    /\ UNCHANGED <<doc, close_count, exc, page_num, highlights, seen,
                   failed_pages, result>>
    /\ UNCHANGED outside_extractor

\* self.doc[page_num] raises: nothing in extract_highlights catches it.
LoadPageFails ==
    /\ pc = "pages"
    /\ page_num < doc.pages
    /\ exc' = "PageError"
    /\ pc' = "exit"
    /\ UNCHANGED <<doc, close_count, page_num, highlights, page_highlights,
                   seen, failed_pages, result>>
    /\ UNCHANGED outside_extractor

\* _extract_page_highlights returns; highlights.extend(page_highlights).
PageReturns ==
    /\ highlights' = highlights \o page_highlights
    /\ page_num' = page_num + 1
    /\ pc' = "pages"
    /\ UNCHANGED <<doc, close_count, exc, page_highlights, seen, result>>
    /\ UNCHANGED outside_extractor

\* page.annots() answers None or nothing to enumerate: `if not annots`.
AnnotsNone ==
    /\ pc = "annots"
    /\ PageReturns
    /\ UNCHANGED failed_pages

\* page.annots() raises: the outer except logs it.
AnnotsFails ==
    /\ pc = "annots"
    /\ PageReturns
    /\ failed_pages' = failed_pages \cup {page_num + 1}

\* page.annots() answers an enumeration.
AnnotsIter ==
    /\ pc = "annots"
    /\ pc' = "iter"
    /\ UNCHANGED <<doc, close_count, exc, page_num, highlights, page_highlights,
                   seen, failed_pages, result>>
    /\ UNCHANGED outside_extractor

\* The enumeration yields an annotation: one pass of the loop body.
NextAnnot ==
    /\ pc = "iter"
    /\ Len(seen) < MaxAnnots
    /\ \E annot \in AnnotInputs :
          /\ page_highlights' = annot_step(page_highlights, annot, page_num + 1)
          /\ seen' = Append(seen, [page |-> page_num + 1, annot |-> annot])
    /\ UNCHANGED <<pc, doc, close_count, exc, page_num, highlights,
                   failed_pages, result>>
    /\ UNCHANGED outside_extractor

\* The enumeration is exhausted.
EnumEnds ==
    /\ pc = "iter"
    /\ PageReturns
    /\ UNCHANGED failed_pages

\* EnumFails with the list of the page dropped.
EnumFailsDropsPage ==
    /\ pc = "iter"
    /\ page_num' = page_num + 1
    /\ pc' = "pages"
    /\ failed_pages' = failed_pages \cup {page_num + 1}
    /\ UNCHANGED <<doc, close_count, exc, highlights, page_highlights, seen,
                   result>>
    /\ UNCHANGED outside_extractor

\* The enumeration raises part-way: the outer except logs it.
EnumFails ==
    /\ pc = "iter"
    /\ PageReturns
    /\ failed_pages' = failed_pages \cup {page_num + 1}

\* The page loop is over: the ExtractionResult is returned.  Its source_file,
\* source_path and extraction_date come from the path and the clock alone.
Return ==
    /\ pc = "pages"
    /\ page_num >= doc.pages
    /\ result' = [none             |-> FALSE,
                  total_pages      |-> doc.pages,
                  total_highlights |-> Len(highlights),
                  highlights       |-> highlights]
    /\ pc' = "exit"
    /\ UNCHANGED <<doc, close_count, exc, page_num, highlights, page_highlights,
                   seen, failed_pages>>
    /\ UNCHANGED outside_extractor

\* __exit__: `if self.doc: self.doc.close()`; returns None, so an exception
\* keeps propagating.
Exit ==
    /\ pc = "exit"
    /\ IF Truthy(doc)
       THEN /\ doc' = [doc EXCEPT !.state = "closed"]
            /\ close_count' = close_count + 1
       ELSE UNCHANGED <<doc, close_count>>
    /\ pc' = "done"
    /\ UNCHANGED <<exc, page_num, highlights, page_highlights, seen,
                   failed_pages, result>>
    /\ UNCHANGED outside_extractor

Next ==
    \/ Enter
    \/ EnterFails
    \/ ExtractNotOpened
    \/ ExtractBegin
    \/ LoadPage
    \/ LoadPageFails
    \/ AnnotsNone
    \/ AnnotsFails
    \/ AnnotsIter
    \/ NextAnnot
    \/ EnumEnds
    \/ EnumFails
    \/ Return
    \/ Exit

Spec == Init /\ [][Next]_vars

(***************************************************************************)
(* rgb_to_color_name on its own.                                           *)
(***************************************************************************)
\* Component values: 0.15 and 0.16 lie on either side of the saturation
\* threshold.
Levels == {0, 15, 16, 50, 75, 100}

RECURSIVE SeqsUpTo(_, _)
\* The sequences over S of length at most n.
SeqsUpTo(S, n) ==
    IF n = 0 THEN {<<>>}
    ELSE LET shorter == SeqsUpTo(S, n - 1)
         IN shorter \cup {Append(q, x) : q \in {t \in shorter : Len(t) = n - 1}, x \in S}

RgbInputs ==
    {[none |-> TRUE, comps |-> <<>>]}
        \cup {[none |-> FALSE, comps |-> q] : q \in SeqsUpTo(Levels, MaxComps)}

InitClassify ==
    /\ pc = "idle"
    /\ doc = NoDoc
    /\ close_count = 0
    /\ exc = "none"
    /\ page_num = 0
    /\ highlights = <<>>
    /\ page_highlights = <<>>
    /\ seen = <<>>
    /\ failed_pages = {}
    /\ result = Nothing
    /\ cpc = "called"
    /\ rgb \in RgbInputs
    /\ closest_name = ""
    /\ hex = <<>>
    /\ FormatterIdle
    /\ SessionIdle
    /\ NormalizerIdle

Classify ==
    /\ cpc = "called"
    /\ closest_name' = rgb_to_color_name(rgb)
    /\ cpc' = "returned"
    /\ UNCHANGED <<rgb, hex>>
    /\ UNCHANGED <<extractor_vars, normalizer_vars, formatter_vars, session_vars>>

NextClassify == Classify

SpecClassify == InitClassify /\ [][NextClassify]_vars

(***************************************************************************)
(* Vocabulary of the properties.                                           *)
(***************************************************************************)
\* The highlights gathered so far, those of the page in progress included.
Collected ==
    IF pc \in {"annots", "iter"} THEN highlights \o page_highlights ELSE highlights

\* The run returned an ExtractionResult.
Returned == ~result.none

\* The kind of the annotation is read and is "highlight".
IsHighlight(a) == "type" \notin a.raises /\ a.type = HighlightType

\* The text recovered for the annotation, trimmed.
RecoveredText(a) == strip(get_highlight_text(a))

\* Text recovery fails: the primary path raises and so does the retry.
RecoveryFails(a) ==
    /\ primary_text(a).raised
    /\ "rect" \in a.raises \/ a.retry_text.raises

\* Colour, rectangle and info of the annotation are read without an error.
AttributesRead(a) ==
    /\ a.raises \cap {"colors", "rect", "info"} = {}
    /\ resolved_color(a.colors).tag = "seq"

\* The annotation is one the normalizer keeps.
Kept(a) == IsHighlight(a) /\ RecoveredText(a) # <<>> /\ AttributesRead(a)

\* The indices of seen, in order, whose annotation satisfies Kept.
KeptIndices == SelectSeq([i \in 1..Len(seen) |-> i], LAMBDA i : Kept(seen[i].annot))

C3_DiscoveryOrder ==
    Returned =>
        LET hl == result.highlights
            kept == KeptIndices
        IN /\ \A i, j \in 1..Len(hl) : i < j => hl[i].page <= hl[j].page
           /\ Len(hl) = Len(kept)
           /\ \A k \in 1..Len(hl) :
                 /\ hl[k].page = seen[kept[k]].page
                 /\ hl[k].text = RecoveredText(seen[kept[k]].annot)
                 /\ hl[k].author = author_of(seen[kept[k]].annot.info)

C3_Witness ==
    /\ Returned
    /\ Len(result.highlights) = 2
    /\ result.highlights[1].page = result.highlights[2].page
    /\ result.highlights[1].text # result.highlights[2].text

\* The indices of seen, in order, of the kept annotations of page p.
KeptOnPage(p) == SelectSeq(KeptIndices, LAMBDA i : seen[i].page = p)

C5_ItemFailuresNeverRaise ==
    /\ exc # "PageError"
    /\ (pc = "done" /\ doc.state # "none" /\ exc # "RuntimeError") => Returned

\* C6: a document opened by entering the scope is closed exactly once when
\* the scope is left, whatever its page count and whatever the exit path.
C6_ClosedExactlyOnce ==
    /\ close_count <= 1
    /\ (pc = "done" /\ doc.state # "none") =>
          (doc.state = "closed" /\ close_count = 1)

\* C7: for every open document, of zero pages or more, the run returns a
\* result whose total_highlights is the length of its highlights list and
\* whose total_pages is the page count (the failure to obtain a page, the
\* subject of C5, set aside).
C7_ResultTotals ==
    (pc = "done" /\ doc.state # "none" /\ exc # "PageError") =>
        /\ Returned
        /\ result.total_highlights = Len(result.highlights)
        /\ result.total_pages = doc.pages

\* C8: every highlight has a non-empty text without leading or trailing
\* whitespace and a 1-indexed page (page index + 1) between 1 and the page
\* count; an annotation whose recovered text is empty or blank is discarded.
C8_TrimmedTextAndPage ==
    /\ pc = "iter" =>
          \A k \in 1..Len(page_highlights) : page_highlights[k].page = page_num + 1
    /\ Returned =>
          /\ \A k \in 1..Len(result.highlights) :
                LET h == result.highlights[k]
                IN /\ h.text # <<>>
                   /\ ~IsSpace(h.text[1])
                   /\ ~IsSpace(h.text[Len(h.text)])
                   /\ h.page \in 1..result.total_pages
          /\ Len(result.highlights) <=
                Cardinality({i \in 1..Len(seen) :
                                get_highlight_text(seen[i].annot) # <<>>})

C8_Witness ==
    /\ Returned
    /\ Len(seen) = 2
    /\ IsHighlight(seen[1].annot)
    /\ get_text(seen[1].annot, seen[1].annot.rect).text # <<>>
    /\ RecoveredText(seen[1].annot) = <<>>
    /\ Kept(seen[2].annot)
    /\ get_text(seen[2].annot, seen[2].annot.rect).text # <<>>
    /\ IsSpace(get_text(seen[2].annot, seen[2].annot.rect).text[1])
    /\ result.total_highlights = 1
    /\ result.highlights[1].text = <<"b">>
    /\ result.highlights[1].page = 2

\* C9 as stated: every highlight has a colour of exactly 3 components, each
\* within [0.0, 1.0], whatever the raw annotation carried.
C9_ColorInUnitRange ==
    Returned =>
        \A k \in 1..Len(result.highlights) :
           /\ Len(result.highlights[k].color) = 3
           /\ \A j \in 1..3 : result.highlights[k].color[j] \in 0..100

\* C9, amended: every highlight has a colour of exactly 3 components whatever
\* the length of the raw value; each component is one of the raw value or the
\* 0.0 of the padding, so it lies within [0.0, 1.0] when the raw components
\* do, and a raw component outside that range is passed on as it is.
C9_ThreeRawComponents ==
    Returned =>
        LET kept == KeptIndices
        IN /\ Len(result.highlights) = Len(kept)
           /\ \A k \in 1..Len(result.highlights) :
                 LET color == result.highlights[k].color
                     raw   == resolved_color(seen[kept[k]].annot.colors).comps
                 IN /\ Len(color) = 3
                    /\ \A j \in 1..3 :
                          color[j] = 0 \/ \E i \in 1..Len(raw) : color[j] = raw[i]
                    /\ (\A i \in 1..Len(raw) : raw[i] \in 0..100) =>
                          \A j \in 1..3 : color[j] \in 0..100

C9_Witness ==
    /\ Returned
    /\ Len(seen) = 2
    /\ Kept(seen[1].annot)
    /\ Kept(seen[2].annot)
    /\ resolved_color(seen[1].annot.colors).comps = <<50>>
    /\ resolved_color(seen[2].annot.colors).comps = <<150, 50, -20, 0>>
    /\ result.highlights[1].color = <<50, 50, 50>>
    /\ result.highlights[2].color = <<150, 50, -20>>

\* C10: rgb_to_color_name names the five reference triples of the tests and
\* answers "unknown" for a missing argument or one of fewer than 3 components.
C10_NamedColors ==
    cpc = "returned" =>
        /\ (~rgb.none /\ rgb.comps = <<100, 100, 0>>) => closest_name = "Yellow"
        /\ (~rgb.none /\ rgb.comps = <<100, 0, 0>>) => closest_name = "Red"
        /\ (~rgb.none /\ rgb.comps = <<0, 100, 0>>) => closest_name = "Green"
        /\ (~rgb.none /\ rgb.comps = <<0, 0, 100>>) => closest_name = "Blue"
        /\ (~rgb.none /\ rgb.comps = <<100, 50, 0>>) => closest_name = "Orange"
        /\ (rgb.none \/ Len(rgb.comps) < 3) => closest_name = "unknown"

C10_Witness ==
    /\ cpc = "returned"
    /\ rgb.comps = <<0, 100, 0>>
    /\ closest_name = "Green"

(***************************************************************************)
(* utils.rgb_to_hex.  A component is an integer in hundredths; after the   *)
(* division by 255.0 it is the fraction num/den, so that int(x * 255) is   *)
(* an exact integer division.                                              *)
(***************************************************************************)
\* The largest byte; the factor and the divisor of rgb_to_hex.
ByteMax == 255

HexDigits == <<"0", "1", "2", "3", "4", "5", "6", "7",
               "8", "9", "A", "B", "C", "D", "E", "F">>

RECURSIVE hex_upper(_)
\* The digits of format type X for n >= 0.
hex_upper(n) ==
    IF n < 16 THEN <<HexDigits[n + 1]>>
    ELSE hex_upper(n \div 16) \o <<HexDigits[(n % 16) + 1]>>

\* f"{n:02X}": sign, digits, zero-padded to a width of two.
format_02X(n) ==
    LET signed == IF n < 0 THEN <<"-">> \o hex_upper(-n) ELSE hex_upper(n)
    IN IF Len(signed) >= 2 THEN signed ELSE <<"0">> \o signed

\* int(x): truncation toward zero of num/den.
int_of(num, den) == IF num >= 0 THEN num \div den ELSE -((-num) \div den)

\* min(1.0, x) alone.
clamp_upper_only(x) == IF x.num > x.den THEN [num |-> x.den, den |-> x.den] ELSE x

\* max(0.0, min(1.0, x))
clamp(x) ==
    IF x.num > x.den THEN [num |-> x.den, den |-> x.den]
    ELSE IF x.num < 0 THEN [num |-> 0, den |-> x.den]
    ELSE x

\* int(x * 255) of the clamped component.
channel(x) == int_of(clamp(x).num * ByteMax, clamp(x).den)

rgb_to_hex(v) ==
    IF rgb_missing(v) THEN <<"#", "F", "F", "F", "F", "F", "F">>
    ELSE LET c == v.comps
             den == IF c[1] > 100 \/ c[2] > 100 \/ c[3] > 100
                    THEN 100 * ByteMax ELSE 100
         IN <<"#">> \o format_02X(channel([num |-> c[1], den |-> den]))
                    \o format_02X(channel([num |-> c[2], den |-> den]))
                    \o format_02X(channel([num |-> c[3], den |-> den]))

(***************************************************************************)
(* rgb_to_hex on its own.                                                  *)
(***************************************************************************)
\* -0.2, 0.0, 0.5, 1.0, 128.0 and 300.0
HexLevels == {-20, 0, 50, 100, 12800, 30000}

HexInputs ==
    {[none |-> TRUE, comps |-> <<>>]}
        \cup {[none |-> FALSE, comps |-> q] : q \in SeqsUpTo(HexLevels, MaxComps)}

InitHex ==
    /\ pc = "idle"
    /\ doc = NoDoc
    /\ close_count = 0
    /\ exc = "none"
    /\ page_num = 0
    /\ highlights = <<>>
    /\ page_highlights = <<>>
    /\ seen = <<>>
    /\ failed_pages = {}
    /\ result = Nothing
    /\ cpc = "called"
    /\ rgb \in HexInputs
    /\ closest_name = ""
    /\ hex = <<>>
    /\ FormatterIdle
    /\ SessionIdle
    /\ NormalizerIdle

ToHex ==
    /\ cpc = "called"
    /\ hex' = rgb_to_hex(rgb)
    /\ cpc' = "returned"
    /\ UNCHANGED <<rgb, closest_name>>
    /\ UNCHANGED <<extractor_vars, normalizer_vars, formatter_vars, session_vars>>

NextHex == ToHex

SpecHex == InitHex /\ [][NextHex]_vars

\* The value of an uppercase hexadecimal digit.
HexValue(ch) == CHOOSE d \in 0..15 : HexDigits[d + 1] = ch

\* The byte written at channel i (1..3) of a well-formed hex string.
ByteAt(s, i) == 16 * HexValue(s[2 * i]) + HexValue(s[2 * i + 1])

\* The byte the spec asks for a component c, in hundredths: on the 0-255
\* scale the whole part of c, on the unit scale c * 255, both clamped.
ExpectedByte(c, scaled) ==
    IF c < 0 THEN 0
    ELSE IF scaled THEN (IF c \div 100 > 255 THEN 255 ELSE c \div 100)
    ELSE (IF c > 100 THEN 255 ELSE (c * 255) \div 100)

\* C11: to_hex always returns '#' and six uppercase hexadecimal digits;
\* "#FFFFFF" for a missing, empty or shorter-than-3 input; otherwise the
\* three bytes of the first three components, read on the 0-255 scale when
\* one of them exceeds 1.0 and on the unit scale when none does, clamped to
\* 0..255; to_hex([1.0, 0.0, 0.0]) = "#FF0000".
C11_HexString ==
    cpc = "returned" =>
        /\ Len(hex) = 7
        /\ hex[1] = "#"
        /\ \A i \in 2..7 : \E d \in 1..16 : hex[i] = HexDigits[d]
        /\ rgb_missing(rgb) => hex = <<"#", "F", "F", "F", "F", "F", "F">>
        /\ ~rgb_missing(rgb) =>
              LET scaled == \E i \in 1..3 : rgb.comps[i] > 100
              IN \A i \in 1..3 :
                    ByteAt(hex, i) = ExpectedByte(rgb.comps[i], scaled)
        /\ (~rgb.none /\ rgb.comps = <<100, 0, 0>>) =>
              hex = <<"#", "F", "F", "0", "0", "0", "0">>

\* [300.0, 128.0, -0.2, 0.5] is rescaled, clamped at both ends, its fourth
\* component ignored.
C11_Witness ==
    /\ cpc = "returned"
    /\ ~rgb.none
    /\ rgb.comps = <<30000, 12800, -20, 50>>
    /\ hex = <<"#", "F", "F", "8", "0", "0", "0">>

(***************************************************************************)
(* The formatters.  A dict is the sequence of its entries [key, items] in  *)
(* insertion order, which is the order json.dumps and a for loop follow.   *)
(***************************************************************************)
\* Highlights of the longest ExtractionResult handed to a formatter.
MaxHighlights == 3

\* str(n) of an integer.
str(n) == ToString(n)

\* The key of group_highlights: str(h.get('page', 0)) or
\* h.get('color_name', 'unknown'); every highlight here has both fields.
key_of(h, by) == IF by = "page" THEN str(h.page) ELSE h.color_name

\* grouped[key] = [h]: the assignment replaces the list.
add_to_group_replacing(grouped, key, h) ==
    IF \E j \in 1..Len(grouped) : grouped[j].key = key
    THEN [j \in 1..Len(grouped) |->
             IF grouped[j].key = key
             THEN [key |-> key, items |-> <<h>>]
             ELSE grouped[j]]
    ELSE Append(grouped, [key |-> key, items |-> <<h>>])

\* if key not in grouped: grouped[key] = []; grouped[key].append(h)
add_to_group(grouped, key, h) ==
    IF \E j \in 1..Len(grouped) : grouped[j].key = key
    THEN [j \in 1..Len(grouped) |->
             IF grouped[j].key = key
             THEN [key |-> key, items |-> Append(grouped[j].items, h)]
             ELSE grouped[j]]
    ELSE Append(grouped, [key |-> key, items |-> <<h>>])

RECURSIVE group_from(_, _, _, _)
\* The for loop of group_highlights from highlights[i] on.
group_from(hs, i, by, grouped) ==
    IF i > Len(hs) THEN grouped
    ELSE group_from(hs, i + 1, by, add_to_group(grouped, key_of(hs[i], by), hs[i]))

\* Any other group_by leaves the dict empty.
group_highlights(hs, by) ==
    IF by \in {"page", "color"} THEN group_from(hs, 1, by, <<>>) ELSE <<>>

(***************************************************************************)
(* utils.format_json_output.  A Python value is [t, v]: t its JSON type,   *)
(* v its content (the items of a list, the entries [k, v] of a dict in     *)
(* insertion order).  The JSON text is the sequence of its tokens: a       *)
(* scalar is one token (str, float and int round-trip exactly through      *)
(* their JSON spelling), the structure is spelled out with punctuation     *)
(* and, when indented, line breaks.                                        *)
(***************************************************************************)
\* A Python value, or a token of the JSON text.
Py(type, value) == [t |-> type, v |-> value]

PyNull == Py("null", PyNone)

\* An optional string: None or a str.
PyOpt(s) == IF s = PyNone THEN PyNull ELSE Py("str", s)

PyFloats(q) == Py("list", [i \in 1..Len(q) |-> Py("float", q[i])])

\* The dict of one highlight, keys in the order of the dict display.
highlight_dict(h) ==
    Py("dict", <<[k |-> "page", v |-> Py("int", h.page)],
             [k |-> "text", v |-> Py("str", h.text)],
             [k |-> "color", v |-> PyFloats(h.color)],
             [k |-> "color_name", v |-> Py("str", h.color_name)],
             [k |-> "rect", v |-> PyFloats(h.rect)],
             [k |-> "author", v |-> PyOpt(h.author)],
             [k |-> "created", v |-> PyOpt(h.created)]>>)

highlight_dicts(hs) == Py("list", [i \in 1..Len(hs) |-> highlight_dict(hs[i])])

\* The ExtractionResult dict.
data_dict(d) ==
    Py("dict", <<[k |-> "source_file", v |-> Py("str", d.source_file)],
             [k |-> "source_path", v |-> Py("str", d.source_path)],
             [k |-> "total_pages", v |-> Py("int", d.total_pages)],
             [k |-> "total_highlights", v |-> Py("int", d.total_highlights)],
             [k |-> "highlights", v |-> highlight_dicts(d.highlights)]>>)

\* The dict group_highlights returns.
grouped_dict(grouped) ==
    Py("dict", [i \in 1..Len(grouped) |->
               [k |-> grouped[i].key, v |-> highlight_dicts(grouped[i].items)]])

\* d[key] = value: a new key goes last, an old key keeps its place.
dict_set(entries, key, value) ==
    IF \E j \in 1..Len(entries) : entries[j].k = key
    THEN [j \in 1..Len(entries) |->
             IF entries[j].k = key THEN [k |-> key, v |-> value] ELSE entries[j]]
    ELSE Append(entries, [k |-> key, v |-> value])

\* The grouped view replaces the flat list.
output_data_grouped_only(d, by) ==
    IF by # PyNone
    THEN Py("dict", <<[k |-> "grouped_highlights",
                   v |-> grouped_dict(group_highlights(d.highlights, by))]>>)
    ELSE data_dict(d)

\* output_data = data: a second name of the caller's dict.
copy_aliasing(d) ==
    [objects |-> [caller |-> data_dict(d)],
     data |-> "caller", output_data |-> "caller"]

\* output_data = data.copy(): the dict objects of a call and the object
\* each name is bound to; the copy is a second dict with the same entries.
copy(d) ==
    [objects |-> [caller |-> data_dict(d), copied |-> data_dict(d)],
     data |-> "caller", output_data |-> "copied"]

\* The objects after the assignment of 'grouped_highlights', made when
\* group_by is truthy ('highlights' is a key of every ExtractionResult).
json_call(d, by) ==
    LET c == copy(d)
    IN IF by # PyNone
       THEN [c EXCEPT !.objects[c.output_data] =
                Py("dict", dict_set(@.v, "grouped_highlights",
                       grouped_dict(group_highlights(d.highlights, by))))]
       ELSE c

\* The dict that json.dumps is given.
output_data(d, by) ==
    LET c == json_call(d, by) IN c.objects[c.output_data]

\* The token is the punctuation mark c.
is_punct(token, c) == token.t = "punct" /\ token.v = c

\* With indent=2 a line break and two spaces a level; none without.
line_break(indent, level) ==
    IF indent THEN <<Py("nl", 2 * level)>> ELSE <<>>

\* The item separator: "," with indent, ", " without.
item_separator(indent) ==
    IF indent THEN <<Py("punct", ",")>> ELSE <<Py("punct", ","), Py("sp", 1)>>

RECURSIVE dumps(_, _, _)
RECURSIVE dump_items(_, _, _, _)
RECURSIVE dump_members(_, _, _, _)
\* json.dumps(o, indent=2 or None, ensure_ascii=False)
dumps(o, indent, level) ==
    IF o.t = "list"
    THEN IF o.v = <<>> THEN <<Py("punct", "["), Py("punct", "]")>>
         ELSE <<Py("punct", "[")>> \o dump_items(o.v, 1, indent, level + 1)
                  \o line_break(indent, level) \o <<Py("punct", "]")>>
    ELSE IF o.t = "dict"
    THEN IF o.v = <<>> THEN <<Py("punct", "{"), Py("punct", "}")>>
         ELSE <<Py("punct", "{")>> \o dump_members(o.v, 1, indent, level + 1)
                  \o line_break(indent, level) \o <<Py("punct", "}")>>
    ELSE <<o>>

dump_items(q, i, indent, level) ==
    IF i > Len(q) THEN <<>>
    ELSE (IF i > 1 THEN item_separator(indent) ELSE <<>>)
            \o line_break(indent, level)
            \o dumps(q[i], indent, level)
            \o dump_items(q, i + 1, indent, level)

dump_members(entries, i, indent, level) ==
    IF i > Len(entries) THEN <<>>
    ELSE (IF i > 1 THEN item_separator(indent) ELSE <<>>)
            \o line_break(indent, level)
            \o <<Py("str", entries[i].k), Py("punct", ":"), Py("sp", 1)>>
            \o dumps(entries[i].v, indent, level)
            \o dump_members(entries, i + 1, indent, level)

format_json_output(d, indent, by) == dumps(output_data(d, by), indent, 0)

RECURSIVE parse_value(_, _)
RECURSIVE parse_items(_, _, _)
RECURSIVE parse_members(_, _, _)
\* The value starting at tokens[i], and the index after it.
parse_value(tokens, i) ==
    IF is_punct(tokens[i], "[")
    THEN IF is_punct(tokens[i + 1], "]")
         THEN [v |-> Py("list", <<>>), i |-> i + 2]
         ELSE parse_items(tokens, i + 1, <<>>)
    ELSE IF is_punct(tokens[i], "{")
    THEN IF is_punct(tokens[i + 1], "}")
         THEN [v |-> Py("dict", <<>>), i |-> i + 2]
         ELSE parse_members(tokens, i + 1, <<>>)
    ELSE [v |-> tokens[i], i |-> i + 1]

parse_items(tokens, i, acc) ==
    LET item == parse_value(tokens, i)
    IN IF is_punct(tokens[item.i], ",")
       THEN parse_items(tokens, item.i + 1, Append(acc, item.v))
       ELSE [v |-> Py("list", Append(acc, item.v)), i |-> item.i + 1]

parse_members(tokens, i, acc) ==
    LET member == parse_value(tokens, i + 2)
        entries == dict_set(acc, tokens[i].v, member.v)
    IN IF is_punct(tokens[member.i], ",")
       THEN parse_members(tokens, member.i + 1, entries)
       ELSE [v |-> Py("dict", entries), i |-> member.i + 1]

\* json.loads: white space between tokens is skipped.
loads(tokens) ==
    parse_value(SelectSeq(tokens, LAMBDA x : x.t \notin {"nl", "sp"}), 1).v

(***************************************************************************)
(* The exporters.  A str built by an f-string is the sequence of its       *)
(* pieces (literal parts and interpolated values), a highlight text being  *)
(* its characters; the Markdown document is the sequence of its lines.     *)
(***************************************************************************)
RECURSIVE sorted_ints(_)
\* sorted() of a set of integers.
sorted_ints(S) ==
    IF S = {} THEN <<>>
    ELSE LET m == CHOOSE x \in S : \A y \in S : x <= y
         IN <<m>> \o sorted_ints(S \ {m})

\* The colour names of the inputs in the order of str.__lt__ (code points:
\* upper case before lower case).
CodePointOrder == <<"Dark Green", "Red", "Yellow", "unknown">>

name_rank(n) == CHOOSE i \in 1..Len(CodePointOrder) : CodePointOrder[i] = n

\* sorted() of a set of colour names.
sorted_names(S) ==
    LET ranks == sorted_ints({name_rank(n) : n \in S})
    IN [i \in 1..Len(ranks) |-> CodePointOrder[ranks[i]]]

\* pages.keys() or colors.keys() as they are: in insertion order.
insertion_keys(hs, by) ==
    LET key(h) == IF by = "page" THEN h.page ELSE h.color_name
        first == SelectSeq([i \in 1..Len(hs) |-> i],
                           LAMBDA i : \A j \in 1..(i - 1) : key(hs[j]) # key(hs[i]))
    IN [n \in 1..Len(first) |-> key(hs[first[n]])]

\* sorted(pages.keys()) or sorted(colors.keys()) of the dict built from hs.
sorted_keys(hs, by) ==
    IF by = "page" THEN sorted_ints({hs[i].page : i \in 1..Len(hs)})
    ELSE sorted_names({hs[i].color_name : i \in 1..Len(hs)})

\* members with a highlight equal to an earlier one of the group left out.
members_distinct(hs, by, k) ==
    LET group == SelectSeq(hs, LAMBDA h : IF by = "page" THEN h.page = k
                                          ELSE h.color_name = k)
        kept == SelectSeq([i \in 1..Len(group) |-> i],
                          LAMBDA i : \A j \in 1..(i - 1) : group[j] # group[i])
    IN [n \in 1..Len(kept) |-> group[kept[n]]]

\* pages[page_num] or colors[color_name]: the highlights appended under k.
members(hs, by, k) ==
    SelectSeq(hs, LAMBDA h : IF by = "page" THEN h.page = k ELSE h.color_name = k)

\* The level nested inside a level.
inner_of(by) == IF by = "page" THEN "color" ELSE "page"

\* str.title(): every name of known_colors is its own title.
title(name) == IF name = "unknown" THEN "Unknown" ELSE name

\* f"Page {page_num}" or color_name.title()
group_title(by, k) == IF by = "page" THEN <<"Page ", str(k)>> ELSE <<title(k)>>

\* Path(p).stem
stem(p) == IF p \in {"doc.pdf", "/path/to/doc.pdf"} THEN "doc" ELSE p

hex_of(h) == rgb_to_hex([none |-> FALSE, comps |-> h.color])

\* notion_exporter: the line of one highlight.
quote_line(h) ==
    <<"> <span style=\"color: ">> \o hex_of(h) \o <<"\">">> \o h.text
        \o <<"</span>", "\n">>

quote_lines(hs) == [n \in 1..Len(hs) |-> quote_line(hs[n])]

RECURSIVE md_inner(_, _, _, _)
\* The '####' subsections of one '###' section.
md_inner(hs, by, keys, i) ==
    IF i > Len(keys) THEN <<>>
    ELSE <<<<"#### ">> \o group_title(by, keys[i]) \o <<"\n">>>>
            \o quote_lines(members(hs, by, keys[i]))
            \o md_inner(hs, by, keys, i + 1)

RECURSIVE md_outer(_, _, _, _)
\* The '###' sections.
md_outer(hs, by, keys, i) ==
    IF i > Len(keys) THEN <<>>
    ELSE LET group == members(hs, by, keys[i])
         IN <<<<"### ">> \o group_title(by, keys[i]) \o <<"\n">>>>
               \o md_inner(group, inner_of(by), sorted_keys(group, inner_of(by)), 1)
               \o md_outer(hs, by, keys, i + 1)

\* NotionExporter._generate_markdown: the lines joined by "\n".
generate_markdown(d, by) ==
    LET outer == IF by = "page" THEN "page" ELSE "color"
    IN <<<<"# ", stem(d.source_path), "\n">>,
         <<"## Document Information\n">>,
         <<"- **Source:** ", d.source_path>>,
         <<"- **Total Pages:** ", str(d.total_pages)>>,
         <<"- **Total Highlights:** ", str(d.total_highlights)>>,
         <<"- **Extraction Date:** ", "\n">>,
         <<"## Highlights\n">>>>
        \o IF d.highlights = <<>>
           THEN <<<<"*No highlights found in this document.*\n">>>>
           ELSE md_outer(d.highlights, outer, sorted_keys(d.highlights, outer), 1)

\* xmind_exporter: a topic; `hex` is the colour of its style, if any.
topic(t, style, children) == [title |-> t, hex |-> style, children |-> children]

\* XMindExporter._add_highlight_topic
highlight_topics(hs) == [n \in 1..Len(hs) |-> topic(hs[n].text, hex_of(hs[n]), <<>>)]

\* The style of a colour topic comes from its first highlight; a page
\* topic has none.
group_style(by, group) == IF by = "page" THEN <<>> ELSE hex_of(group[1])

RECURSIVE x_inner_descending(_, _, _, _)
\* The inner topics from the last key down to the first.
x_inner_descending(hs, by, keys, i) ==
    IF i > Len(keys) THEN <<>>
    ELSE LET group == members(hs, by, keys[Len(keys) + 1 - i])
         IN <<topic(group_title(by, keys[Len(keys) + 1 - i]),
                    group_style(by, group), highlight_topics(group))>>
               \o x_inner_descending(hs, by, keys, i + 1)

RECURSIVE x_inner(_, _, _, _)
x_inner(hs, by, keys, i) ==
    IF i > Len(keys) THEN <<>>
    ELSE LET group == members(hs, by, keys[i])
         IN <<topic(group_title(by, keys[i]), group_style(by, group),
                    highlight_topics(group))>>
               \o x_inner(hs, by, keys, i + 1)

RECURSIVE x_outer(_, _, _, _)
x_outer(hs, by, keys, i) ==
    IF i > Len(keys) THEN <<>>
    ELSE LET group == members(hs, by, keys[i])
         IN <<topic(group_title(by, keys[i]), group_style(by, group),
                    x_inner(group, inner_of(by),
                            sorted_keys(group, inner_of(by)), 1))>>
               \o x_outer(hs, by, keys, i + 1)

\* No placeholder for an empty list.
add_topics_without_placeholder(d, by) ==
    x_outer(d.highlights, by, sorted_keys(d.highlights, by), 1)

\* XMindExporter._add_page_topics / _add_color_topics
add_topics(d, by) ==
    IF d.highlights = <<>> THEN <<topic(<<"No highlights found">>, <<>>, <<>>)>>
    ELSE x_outer(d.highlights, by, sorted_keys(d.highlights, by), 1)

\* XMindExporter._create_content: the sheet with its root topic.
create_content(d, by) ==
    [title     |-> <<"Highlights: ", stem(d.source_file)>>,
     rootTopic |-> topic(<<stem(d.source_file)>>, <<>>,
                         add_topics(d, IF by = "page" THEN "page" ELSE "color"))]

(***************************************************************************)
(* One call of a formatter on an ExtractionResult.                         *)
(***************************************************************************)
\* A highlight as _extract_highlight_data returns it.
Hl(page, text, color) ==
    [page       |-> page,
     text       |-> text,
     color      |-> color,
     color_name |-> rgb_to_color_name([none |-> FALSE, comps |-> color]),
     rect       |-> RectA,
     author     |-> PyNone,
     created    |-> PyNone]

HighlightInputs ==
    {Hl(2, <<"a">>, <<100, 100, 0>>),
     Hl(10, <<"b">>, <<100, 0, 0>>),
     Hl(2, <<"c">>, <<100, 0, 0>>),
     Hl(10, <<"d">>, <<100, 100, 0>>),
     Hl(1, <<"e">>, <<0, 50, 0>>)}

DataInputs ==
    {[source_file      |-> "doc.pdf",
      source_path      |-> "/path/to/doc.pdf",
      total_pages      |-> 10,
      total_highlights |-> Len(hs),
      highlights       |-> hs] : hs \in SeqsUpTo(HighlightInputs, MaxHighlights)}

GroupByInputs == {"page", "color", "invalid", PyNone}

ExtractorIdle ==
    /\ pc = "idle"
    /\ doc = NoDoc
    /\ close_count = 0
    /\ exc = "none"
    /\ page_num = 0
    /\ highlights = <<>>
    /\ page_highlights = <<>>
    /\ seen = <<>>
    /\ failed_pages = {}
    /\ result = Nothing

ColorsIdle ==
    /\ cpc = "idle"
    /\ rgb = [none |-> TRUE, comps |-> <<>>]
    /\ closest_name = ""
    /\ hex = <<>>

InitFormat ==
    /\ ExtractorIdle
    /\ ColorsIdle
    /\ NormalizerIdle
    /\ fpc = "called"
    /\ formatter = ""
    /\ data \in DataInputs
    /\ passed = data_dict(data)
    /\ group_by \in GroupByInputs
    /\ pretty = FALSE
    /\ ret = <<>>
    /\ files \in {[p \in Paths |-> NoFile], [p \in Paths |-> OldFile(p)]}
    /\ fexc = "none"
    /\ SessionIdle

\* utils.group_highlights(data['highlights'], group_by)
GroupHighlights ==
    /\ fpc = "called"
    /\ formatter' = "group_highlights"
    /\ ret' = group_highlights(data.highlights, group_by)
    /\ fpc' = "returned"
    /\ UNCHANGED <<data, passed, group_by, pretty, files, fexc>>
    /\ UNCHANGED <<extractor_vars, classifier_vars, normalizer_vars, session_vars>>

\* utils.format_json_output(data, pretty, group_by)
FormatJson ==
    /\ fpc = "called"
    /\ formatter' = "format_json_output"
    /\ \E indent \in BOOLEAN :
          /\ pretty' = indent
          /\ ret' = format_json_output(data, indent, group_by)
    /\ passed' = LET c == json_call(data, group_by) IN c.objects[c.data]
    /\ fpc' = "returned"
    /\ UNCHANGED <<data, group_by, files, fexc>>
    /\ UNCHANGED <<extractor_vars, classifier_vars, normalizer_vars, session_vars>>

\* NotionExporter(data)._generate_markdown(group_by)
GenerateMarkdown ==
    /\ fpc = "called"
    /\ formatter' = "_generate_markdown"
    /\ ret' = generate_markdown(data, group_by)
    /\ fpc' = "returned"
    /\ UNCHANGED <<data, passed, group_by, pretty, files, fexc>>
    /\ UNCHANGED <<extractor_vars, classifier_vars, normalizer_vars, session_vars>>

\* export with the archive written before group_by is looked at.
ExportXmindWritesFirst ==
    /\ fpc = "called"
    /\ formatter' = "XMindExporter.export"
    /\ files' = [files EXCEPT !["out.xmind"] =
                    [exists |-> TRUE, content |-> create_content(data, group_by)]]
    /\ fexc' = IF group_by \notin {"page", "color"} THEN "ValueError" ELSE fexc
    /\ fpc' = "returned"
    /\ UNCHANGED <<data, passed, group_by, pretty, ret>>
    /\ UNCHANGED <<extractor_vars, classifier_vars, normalizer_vars, session_vars>>

\* XMindExporter(data).export(output_path, group_by): the ValueError
\* comes before the archive is opened for writing.
ExportXmind ==
    /\ fpc = "called"
    /\ formatter' = "XMindExporter.export"
    /\ IF group_by \notin {"page", "color"}
       THEN /\ fexc' = "ValueError"
            /\ UNCHANGED files
       ELSE /\ files' = [files EXCEPT !["out.xmind"] =
                            [exists |-> TRUE,
                             content |-> create_content(data, group_by)]]
            /\ UNCHANGED fexc
    /\ fpc' = "returned"
    /\ UNCHANGED <<data, passed, group_by, pretty, ret>>
    /\ UNCHANGED <<extractor_vars, classifier_vars, normalizer_vars, session_vars>>

\* export with group_by checked as the mind-map exporter checks it.
ExportNotionValidating ==
    /\ fpc = "called"
    /\ formatter' = "NotionExporter.export"
    /\ IF group_by \notin {"page", "color"}
       THEN /\ fexc' = "ValueError"
            /\ UNCHANGED files
       ELSE /\ files' = [files EXCEPT !["out.md"] =
                            [exists |-> TRUE,
                             content |-> generate_markdown(data, group_by)]]
            /\ UNCHANGED fexc
    /\ fpc' = "returned"
    /\ UNCHANGED <<data, passed, group_by, pretty, ret>>
    /\ UNCHANGED <<extractor_vars, classifier_vars, normalizer_vars, session_vars>>

\* NotionExporter(data).export(output_path, group_by): the document is
\* generated and written; group_by is only compared with "page".
ExportNotion ==
    /\ fpc = "called"
    /\ formatter' = "NotionExporter.export"
    /\ files' = [files EXCEPT !["out.md"] =
                    [exists |-> TRUE, content |-> generate_markdown(data, group_by)]]
    /\ fpc' = "returned"
    /\ UNCHANGED <<data, passed, group_by, pretty, ret, fexc>>
    /\ UNCHANGED <<extractor_vars, classifier_vars, normalizer_vars, session_vars>>

NextFormat ==
    \/ GroupHighlights
    \/ FormatJson
    \/ GenerateMarkdown
    \/ ExportXmind
    \/ ExportNotion

SpecFormat == InitFormat /\ [][NextFormat]_vars

\* The formatter f returned.
ReturnedFrom(f) == fpc = "returned" /\ formatter = f

\* The highlights of hs whose key is k, in the order of hs.
WithKey(hs, by, k) == SelectSeq(hs, LAMBDA h : key_of(h, by) = k)

RECURSIVE Flatten(_)
\* The items of the groups, group after group.
Flatten(grouped) ==
    IF grouped = <<>> THEN <<>>
    ELSE Head(grouped).items \o Flatten(Tail(grouped))

\* C12: for group_by 'page' or 'color' the groups are a stable partition of
\* the input: the keys are distinct, no group is empty, every highlight's
\* key has a group, and a group holds exactly the input highlights of its
\* key in source order; grouping again what was grouped yields the same
\* mapping.
C12_StablePartition ==
    (ReturnedFrom("group_highlights") /\ group_by \in {"page", "color"}) =>
        /\ \A i, j \in 1..Len(ret) : ret[i].key = ret[j].key => i = j
        /\ \A i \in 1..Len(ret) : ret[i].items # <<>>
        /\ \A n \in 1..Len(data.highlights) :
              \E i \in 1..Len(ret) : ret[i].key = key_of(data.highlights[n], group_by)
        /\ \A i \in 1..Len(ret) :
              ret[i].items = WithKey(data.highlights, group_by, ret[i].key)
        /\ group_highlights(Flatten(ret), group_by) = ret

\* Pages 2, 10, 2: two groups, page 2 first holding "a" then "c".
C12_Witness ==
    /\ ReturnedFrom("group_highlights")
    /\ group_by = "page"
    /\ Len(data.highlights) = 3
    /\ Len(ret) = 2
    /\ ret[1].key = "2"
    /\ ret[2].key = "10"
    /\ Len(ret[1].items) = 2
    /\ ret[1].items[1].text = <<"a">>
    /\ ret[1].items[2].text = <<"c">>

\* d.get(key), None when the key is missing.
DictGet(d, key) ==
    IF \E j \in 1..Len(d.v) : d.v[j].k = key
    THEN d.v[CHOOSE j \in 1..Len(d.v) : d.v[j].k = key].v
    ELSE PyNull

\* Two scalars are the same value of the same type.
SameScalar(a, b) == a.t = b.t /\ a.v = b.v

\* C17: parsing the JSON text (compact or indented, with or without
\* group_by) gives back total_highlights, total_pages and, highlight by
\* highlight in order, text and color_name; without group_by the parsed
\* structure is the formatted one.
C17_JsonRoundTrip ==
    ReturnedFrom("format_json_output") =>
        LET parsed == loads(ret)
            hs == DictGet(parsed, "highlights")
        IN /\ parsed.t = "dict"
           /\ SameScalar(DictGet(parsed, "total_highlights"),
                         Py("int", data.total_highlights))
           /\ SameScalar(DictGet(parsed, "total_pages"), Py("int", data.total_pages))
           /\ hs.t = "list"
           /\ Len(hs.v) = Len(data.highlights)
           /\ \A n \in 1..Len(data.highlights) :
                 /\ SameScalar(DictGet(hs.v[n], "text"),
                               Py("str", data.highlights[n].text))
                 /\ SameScalar(DictGet(hs.v[n], "color_name"),
                               Py("str", data.highlights[n].color_name))
           /\ group_by = PyNone => parsed = data_dict(data)

\* An indented text with a grouped view of three highlights.
C17_Witness ==
    /\ ReturnedFrom("format_json_output")
    /\ pretty
    /\ group_by = "color"
    /\ Len(data.highlights) = 3
    /\ \E i \in 1..Len(ret) : ret[i].t = "nl"
    /\ DictGet(loads(ret), "grouped_highlights").t = "dict"
    /\ SameScalar(DictGet(DictGet(loads(ret), "highlights").v[3], "text"),
                  Py("str", data.highlights[3].text))

\* The dict has an entry under the key.
HasEntry(d, key) == \E j \in 1..Len(d.v) : d.v[j].k = key

\* C21: a formatter leaves the mapping it was passed as it was:
\* format_json_output (with or without group_by), the Markdown formatter
\* and the mind-map formatter return with the caller's mapping equal to the
\* ExtractionResult passed and without a grouped_highlights entry; the
\* grouped view is an entry of the JSON output exactly when a group_by was
\* given, and the flat list stays beside it.
C21_FormattersArePure ==
    (fpc = "returned" /\ formatter # "group_highlights") =>
        /\ passed = data_dict(data)
        /\ ~HasEntry(passed, "grouped_highlights")
        /\ formatter = "format_json_output" =>
              /\ HasEntry(loads(ret), "grouped_highlights") <=> group_by # PyNone
              /\ HasEntry(loads(ret), "highlights")

\* A JSON text with a grouped view of two highlights was returned.
C21_Witness ==
    /\ ReturnedFrom("format_json_output")
    /\ group_by = "page"
    /\ Len(data.highlights) = 2
    /\ Len(DictGet(loads(ret), "grouped_highlights").v) = 2
    /\ Len(passed.v) = 5

(***************************************************************************)
(* The outline of a document: its outer groups [title, groups], each inner *)
(* group [title, texts].                                                   *)
(***************************************************************************)
IsOuterHeading(line) == line[1] = "### "

IsInnerHeading(line) == line[1] = "#### "

IsQuote(line) == line[1] = "> <span style=\"color: "

\* The heading without its marks and its line end.
HeadingTitle(line) == SubSeq(line, 2, Len(line) - 1)

\* The text of a block-quote line: what stands between the opening tag,
\* closed after the seven characters of the colour, and "</span>".
QuoteText(line) == SubSeq(line, 10, Len(line) - 2)

RECURSIVE MarkdownOutline(_, _, _)
MarkdownOutline(lines, i, acc) ==
    IF i > Len(lines) THEN acc
    ELSE LET line == lines[i]
             n == Len(acc)
             m == IF n = 0 THEN 0 ELSE Len(acc[n].groups)
         IN IF IsOuterHeading(line)
            THEN MarkdownOutline(lines, i + 1,
                    Append(acc, [title |-> HeadingTitle(line), groups |-> <<>>]))
            ELSE IF IsInnerHeading(line) /\ n > 0
            THEN MarkdownOutline(lines, i + 1,
                    [acc EXCEPT ![n].groups =
                        Append(@, [title |-> HeadingTitle(line), texts |-> <<>>])])
            ELSE IF IsQuote(line) /\ m > 0
            THEN MarkdownOutline(lines, i + 1,
                    [acc EXCEPT ![n].groups[m].texts = Append(@, QuoteText(line))])
            ELSE MarkdownOutline(lines, i + 1, acc)

\* The outline of a mind map: the topics under the root, their children,
\* the titles of the leaves.
TreeOutline(root) ==
    [i \in 1..Len(root.children) |->
        [title  |-> root.children[i].title,
         groups |-> [j \in 1..Len(root.children[i].children) |->
                        [title |-> root.children[i].children[j].title,
                         texts |-> [n \in 1..Len(root.children[i].children[j].children) |->
                                       root.children[i].children[j].children[n].title]]]]]

\* The keys of a level, and whether a highlight falls under a key.
Keys(hs, by) ==
    {IF by = "page" THEN hs[i].page ELSE hs[i].color_name : i \in 1..Len(hs)}

HasKey(h, by, k) == IF by = "page" THEN h.page = k ELSE h.color_name = k

\* Numeric order of pages, lexicographic order of colour names.
LessKey(by, a, b) == IF by = "page" THEN a < b ELSE name_rank(a) < name_rank(b)

\* The key a group title stands for.
KeyOf(by, t, hs) == CHOOSE k \in Keys(hs, by) : t = group_title(by, k)

\* The groups are those of the keys of hs at level `by`, one each, in
\* ascending order.
AscendingGroups(groups, by, hs) ==
    /\ \A i \in 1..Len(groups) :
          \E k \in Keys(hs, by) : groups[i].title = group_title(by, k)
    /\ \A k \in Keys(hs, by) :
          \E i \in 1..Len(groups) : groups[i].title = group_title(by, k)
    /\ \A i, j \in 1..Len(groups) :
          i < j => LessKey(by, KeyOf(by, groups[i].title, hs),
                           KeyOf(by, groups[j].title, hs))

\* An outline nests level `by` outside and the other level inside, both
\* ascending, each inner group holding the texts of its highlights in
\* source order.
NestedAscending(outline, by, hs) ==
    /\ AscendingGroups(outline, by, hs)
    /\ \A i \in 1..Len(outline) :
          LET k == KeyOf(by, outline[i].title, hs)
              under == SelectSeq(hs, LAMBDA h : HasKey(h, by, k))
              inner == outline[i].groups
          IN /\ AscendingGroups(inner, inner_of(by), under)
             /\ \A j \in 1..Len(inner) :
                   LET kk == KeyOf(inner_of(by), inner[j].title, under)
                       held == SelectSeq(under, LAMBDA h : HasKey(h, inner_of(by), kk))
                   IN inner[j].texts = [n \in 1..Len(held) |-> held[n].text]

\* The index of the first line equal to `line`, 0 if there is none.
LineIndex(lines, line) ==
    IF \E i \in 1..Len(lines) : lines[i] = line
    THEN CHOOSE i \in 1..Len(lines) :
            lines[i] = line /\ \A j \in 1..(i - 1) : lines[j] # line
    ELSE 0

\* C14: in the Markdown of group_by 'page' the '### Page n' sections ascend
\* numerically and the '####' colour subsections of each ascend
\* lexicographically, each holding its highlights in source order; with
\* group_by 'color' the nesting is reversed; the title line precedes
\* '## Document Information', which precedes '## Highlights', which
\* precedes every group heading.
C14_MarkdownOrder ==
    (ReturnedFrom("_generate_markdown") /\ group_by \in {"page", "color"}) =>
        LET info == LineIndex(ret, <<"## Document Information\n">>)
            section == LineIndex(ret, <<"## Highlights\n">>)
        IN /\ ret[1][1] = "# "
           /\ 1 < info
           /\ info < section
           /\ \A i \in 1..Len(ret) :
                 (IsOuterHeading(ret[i]) \/ IsInnerHeading(ret[i])) => section < i
           /\ NestedAscending(MarkdownOutline(ret, 1, <<>>), group_by,
                              data.highlights)

\* Page 10 comes first in the source and Yellow before Red on page 2: the
\* document has Page 2 (Red "c", Yellow "a") and then Page 10 (Red "b").
C14_Witness ==
    /\ ReturnedFrom("_generate_markdown")
    /\ group_by = "page"
    /\ Len(data.highlights) = 3
    /\ data.highlights[1].page = 10
    /\ data.highlights[2].color_name = "Yellow"
    /\ MarkdownOutline(ret, 1, <<>>)
          = <<[title |-> <<"Page ", "2">>,
               groups |-> <<[title |-> <<"Red">>, texts |-> <<<<"c">>>>],
                            [title |-> <<"Yellow">>, texts |-> <<<<"a">>>>]>>],
              [title |-> <<"Page ", "10">>,
               groups |-> <<[title |-> <<"Red">>, texts |-> <<<<"b">>>>]>>]>>

\* C16: for a result without highlights, in both group_by modes, the root
\* of the mind map has exactly one child, titled "No highlights found" and
\* childless, and the Markdown has the notice right under '## Highlights'
\* and no '###' or '####' heading.
C16_Placeholders ==
    (fpc = "returned" /\ data.highlights = <<>> /\ group_by \in {"page", "color"}) =>
        /\ formatter = "XMindExporter.export" =>
              LET root == files["out.xmind"].content.rootTopic
              IN /\ Len(root.children) = 1
                 /\ root.children[1].title = <<"No highlights found">>
                 /\ root.children[1].children = <<>>
        /\ formatter = "_generate_markdown" =>
              /\ LineIndex(ret, <<"## Highlights\n">>) > 0
              /\ LineIndex(ret, <<"*No highlights found in this document.*\n">>)
                    = LineIndex(ret, <<"## Highlights\n">>) + 1
              /\ \A i \in 1..Len(ret) :
                    ~IsOuterHeading(ret[i]) /\ ~IsInnerHeading(ret[i])

\* The mind map of an empty result grouped by colour, written over an old
\* file.
C16_Witness ==
    /\ ReturnedFrom("XMindExporter.export")
    /\ data.highlights = <<>>
    /\ group_by = "color"
    /\ files["out.md"] = OldFile("out.md")
    /\ files["out.xmind"].exists
    /\ Len(files["out.xmind"].content.rootTopic.children) = 1

\* C15: the mind-map exporter called with a group_by other than 'page' or
\* 'color' raises ValueError and creates or modifies no file.
C15_InvalidGroupByWritesNothing ==
    [][(fpc = "called" /\ formatter' = "XMindExporter.export"
            /\ group_by \notin {"page", "color"})
          => (fexc' = "ValueError" /\ files' = files)]_vars

\* The call with group_by "invalid" raised and the old archive is intact.
C15_Witness ==
    /\ ReturnedFrom("XMindExporter.export")
    /\ group_by = "invalid"
    /\ fexc = "ValueError"
    /\ files["out.xmind"] = OldFile("out.xmind")

\* C20: for the same result with highlights and the same group_by ('page'
\* or 'color') the mind map and the Markdown document have the same
\* outline: the same outer groups in the same order, in each the same
\* inner groups, in each the same highlight texts, one leaf per block-quote
\* line.
C20_SameTraversal ==
    (fpc = "returned" /\ group_by \in {"page", "color"} /\ data.highlights # <<>>) =>
        /\ formatter = "XMindExporter.export" =>
              TreeOutline(files["out.xmind"].content.rootTopic)
                 = MarkdownOutline(generate_markdown(data, group_by), 1, <<>>)
        /\ formatter = "_generate_markdown" =>
              MarkdownOutline(ret, 1, <<>>)
                 = TreeOutline(create_content(data, group_by).rootTopic)

\* A mind map by colour of three highlights of two colours, Red holding
\* two pages.
C20_Witness ==
    /\ ReturnedFrom("XMindExporter.export")
    /\ group_by = "color"
    /\ Len(data.highlights) = 3
    /\ LET outline == TreeOutline(files["out.xmind"].content.rootTopic)
       IN /\ Len(outline) = 2
          /\ outline[1].title = <<"Red">>
          /\ Len(outline[1].groups) = 2
          /\ outline[1].groups[1].title = <<"Page ", "2">>
          /\ outline[1].groups[2].title = <<"Page ", "10">>
          /\ outline = MarkdownOutline(generate_markdown(data, group_by), 1, <<>>)

\* The groups of the grouped view of a parsed JSON text, as an outline
\* level: the key as title.
JsonGroups(parsed, by) ==
    LET view == DictGet(parsed, "grouped_highlights")
    IN [i \in 1..Len(view.v) |->
           [title |-> IF by = "page"
                      THEN <<"Page ", view.v[i].k>>
                      ELSE <<title(view.v[i].k)>>]]

\* C13: every formatter iterates the group keys in ascending order (pages
\* numerically, colour names lexicographically) whatever the order of the
\* input: the grouped view of the JSON text, both levels of the Markdown
\* document and both levels of the mind map.
C13_KeysAscending ==
    (fpc = "returned" /\ group_by \in {"page", "color"}) =>
        /\ formatter = "format_json_output" =>
              AscendingGroups(JsonGroups(loads(ret), group_by), group_by,
                              data.highlights)
        /\ formatter = "_generate_markdown" =>
              NestedAscending(MarkdownOutline(ret, 1, <<>>), group_by,
                              data.highlights)
        /\ (formatter = "XMindExporter.export" /\ data.highlights # <<>>) =>
              NestedAscending(TreeOutline(files["out.xmind"].content.rootTopic),
                              group_by, data.highlights)

(***************************************************************************)
(* The caller sessions: PDFExtractorApp.run_extraction (tui.py) and main   *)
(* (cli.py).  Validation, extraction and the writes are the environment:   *)
(* each returns or raises.  `failed` records the steps that raised.        *)
(***************************************************************************)
Formats == {"json", "xmind", "notion"}

\* The output path of a format: base_name with its suffix, or args.output.
PathOf(f) ==
    IF f = "json" THEN "out.json" ELSE IF f = "xmind" THEN "out.xmind" ELSE "out.md"

\* What extract_highlights_from_pdf returns to a session.
SessionResults == {d \in DataInputs : Len(d.highlights) <= 1}

\* What a completed export leaves at its path.
exported(f, d, by, indent) ==
    [exists  |-> TRUE,
     content |-> IF f = "json" THEN format_json_output(d, indent, by)
                 ELSE IF f = "xmind" THEN create_content(d, by)
                 ELSE generate_markdown(d, by)]

\* What a failed export may leave: the files as they were, or the file
\* opened for writing and left empty.
after_failure(fs, f) ==
    {fs, [fs EXCEPT ![PathOf(f)] = [exists |-> TRUE, content |-> <<>>]]}

InitTui ==
    /\ ExtractorIdle
    /\ ColorsIdle
    /\ NormalizerIdle
    /\ fpc = "idle"
    /\ formatter = ""
    /\ data = NoData
    /\ passed = PyNone
    /\ group_by \in {"page", "color"}
    /\ pretty = TRUE
    /\ ret = <<>>
    /\ files \in {[p \in Paths |-> NoFile], [p \in Paths |-> OldFile(p)]}
    /\ fexc = "none"
    /\ spc = "tui"
    /\ requested \in SUBSET Formats
    /\ failed = {}
    /\ exit_code = -1

\* `if not self.selected_file: return`
TuiNoFile ==
    /\ spc = "tui"
    /\ spc' = "done"
    /\ UNCHANGED <<requested, failed, exit_code>>
    /\ UNCHANGED <<extractor_vars, classifier_vars, normalizer_vars, formatter_vars>>

\* result = extract_highlights_from_pdf(...); a raise goes to the outer
\* `except Exception`.
TuiExtract ==
    /\ spc = "tui"
    /\ \/ /\ data' \in SessionResults
          /\ spc' = "tui_json"
          /\ UNCHANGED failed
       \/ /\ failed' = failed \cup {"extract"}
          /\ spc' = "done"
          /\ UNCHANGED data
    /\ UNCHANGED <<requested, exit_code>>
    /\ UNCHANGED <<fpc, formatter, passed, group_by, pretty, ret, files, fexc>>
    /\ UNCHANGED <<extractor_vars, classifier_vars, normalizer_vars>>

\* if json_enabled: format_json_output and write_text, inside the outer
\* try only: a raise ends the session.
TuiJson ==
    /\ spc = "tui_json"
    /\ IF "json" \notin requested
       THEN /\ spc' = "tui_xmind"
            /\ UNCHANGED <<files, failed>>
       ELSE \/ /\ files' = [files EXCEPT !["out.json"] =
                               exported("json", data, group_by, TRUE)]
               /\ spc' = "tui_xmind"
               /\ UNCHANGED failed
            \/ /\ files' \in after_failure(files, "json")
               /\ failed' = failed \cup {"json"}
               /\ spc' = "done"
    /\ UNCHANGED <<requested, exit_code>>
    /\ UNCHANGED <<fpc, formatter, data, passed, group_by, pretty, ret, fexc>>
    /\ UNCHANGED <<extractor_vars, classifier_vars, normalizer_vars>>

\* try: export of format f; except Exception: log.  The files and the
\* failures after the step.
guarded_export(f) ==
    IF f \notin requested
    THEN UNCHANGED <<files, failed>>
    ELSE \/ /\ files' = [files EXCEPT ![PathOf(f)] =
                            exported(f, data, group_by, TRUE)]
            /\ UNCHANGED failed
         \/ /\ files' \in after_failure(files, f)
            /\ failed' = failed \cup {f}

\* if xmind_enabled: try: export_to_xmind(...) except Exception: log
TuiXmind ==
    /\ spc = "tui_xmind"
    /\ guarded_export("xmind")
    /\ spc' = "tui_notion"
    /\ UNCHANGED <<requested, exit_code>>
    /\ UNCHANGED <<fpc, formatter, data, passed, group_by, pretty, ret, fexc>>
    /\ UNCHANGED <<extractor_vars, classifier_vars, normalizer_vars>>

\* if notion_enabled: try: export_to_notion(...) except Exception: log
TuiNotion ==
    /\ spc = "tui_notion"
    /\ guarded_export("notion")
    /\ spc' = "done"
    /\ UNCHANGED <<requested, exit_code>>
    /\ UNCHANGED <<fpc, formatter, data, passed, group_by, pretty, ret, fexc>>
    /\ UNCHANGED <<extractor_vars, classifier_vars, normalizer_vars>>

NextTui ==
    \/ TuiNoFile
    \/ TuiExtract
    \/ TuiJson
    \/ TuiXmind
    \/ TuiNotion

SpecTui == InitTui /\ [][NextTui]_vars

\* The session got a result from the extraction.
Extracted == data # NoData

\* The file of format f holds the export of the session's result.
Exported(f) == files[PathOf(f)] = exported(f, data, group_by, TRUE)

\* C18: in a TUI session the failure of one format's export step ends that
\* step only: every requested format whose own step did not fail is
\* exported.
C18_FailureStopsOneStep ==
    (spc = "done" /\ Extracted) =>
        \A f \in requested : f \in failed \/ Exported(f)

(***************************************************************************)
(* cli.main                                                                *)
(***************************************************************************)
InitCli ==
    /\ ExtractorIdle
    /\ ColorsIdle
    /\ NormalizerIdle
    /\ fpc = "idle"
    /\ formatter = ""
    /\ data = NoData
    /\ passed = PyNone
    /\ group_by \in {"page", "color"}
    /\ pretty \in BOOLEAN
    /\ ret = <<>>
    /\ files \in {[p \in Paths |-> NoFile], [p \in Paths |-> OldFile(p)]}
    /\ fexc = "none"
    /\ spc = "cli"
    /\ requested \in {{f} : f \in Formats}
    /\ failed = {}
    /\ exit_code = -1

\* validate_pdf_file(args.input_pdf): not valid, return 1.
CliValidateInput ==
    /\ spc = "cli"
    /\ \/ /\ spc' = "cli_output"
          /\ UNCHANGED <<failed, exit_code>>
       \/ /\ failed' = {"validate_pdf_file"}
          /\ exit_code' = 1
          /\ spc' = "done"
    /\ UNCHANGED requested
    /\ UNCHANGED <<extractor_vars, classifier_vars, normalizer_vars, formatter_vars>>

\* validate_output_path(args.output): not valid, return 1.
CliValidateOutput ==
    /\ spc = "cli_output"
    /\ \/ /\ spc' = "cli_extract"
          /\ UNCHANGED <<failed, exit_code>>
       \/ /\ failed' = {"validate_output_path"}
          /\ exit_code' = 1
          /\ spc' = "done"
    /\ UNCHANGED requested
    /\ UNCHANGED <<extractor_vars, classifier_vars, normalizer_vars, formatter_vars>>

\* main with a result without highlights taken for a failure.
CliExtractZeroIsError ==
    /\ spc = "cli_extract"
    /\ \/ /\ data' \in SessionResults
          /\ IF data'.total_highlights = 0
             THEN exit_code' = 1 /\ spc' = "done"
             ELSE spc' = "cli_export" /\ UNCHANGED exit_code
          /\ UNCHANGED failed
       \/ /\ failed' = {"extract"}
          /\ exit_code' = 1
          /\ spc' = "done"
          /\ UNCHANGED data
    /\ UNCHANGED requested
    /\ UNCHANGED <<fpc, formatter, passed, group_by, pretty, ret, files, fexc>>
    /\ UNCHANGED <<extractor_vars, classifier_vars, normalizer_vars>>

\* result = extract_highlights_from_pdf(args.input_pdf): a raise is caught
\* by one of the except clauses of main, which return 1; no highlights is
\* a warning and main goes on.
CliExtract ==
    /\ spc = "cli_extract"
    /\ \/ /\ data' \in SessionResults
          /\ spc' = "cli_export"
          /\ UNCHANGED <<failed, exit_code>>
       \/ /\ failed' = {"extract"}
          /\ exit_code' = 1
          /\ spc' = "done"
          /\ UNCHANGED data
    /\ UNCHANGED requested
    /\ UNCHANGED <<fpc, formatter, passed, group_by, pretty, ret, files, fexc>>
    /\ UNCHANGED <<extractor_vars, classifier_vars, normalizer_vars>>

\* What main writes for args.format: the JSON text without a grouped view,
\* or the export by args.group_by.
cli_output(f) == exported(f, data, IF f = "json" THEN PyNone ELSE group_by, pretty)

\* The branch of args.format: the export returns and main returns 0, or it
\* raises and main returns 1.
CliExport ==
    /\ spc = "cli_export"
    /\ \E f \in requested :
          \/ /\ files' = [files EXCEPT ![PathOf(f)] = cli_output(f)]
             /\ exit_code' = 0
             /\ UNCHANGED failed
          \/ /\ files' \in after_failure(files, f)
             /\ failed' = {"export"}
             /\ exit_code' = 1
    /\ spc' = "done"
    /\ UNCHANGED requested
    /\ UNCHANGED <<fpc, formatter, data, passed, group_by, pretty, ret, fexc>>
    /\ UNCHANGED <<extractor_vars, classifier_vars, normalizer_vars>>

NextCli ==
    \/ CliValidateInput
    \/ CliValidateOutput
    \/ CliExtract
    \/ CliExport

SpecCli == InitCli /\ [][NextCli]_vars

\* C19: no highlights is a warning: when the validations pass, the
\* extraction returns a result with total_highlights = 0 and the export
\* step does not fail, main has written the requested output file and
\* returns 0; main returns 0 or 1, and 1 only when a validation, the
\* extraction or the export step failed.
C19_ZeroHighlightsIsNoError ==
    spc = "done" =>
        /\ exit_code \in {0, 1}
        /\ exit_code = 1 => failed # {}
        /\ (failed = {} /\ data.total_highlights = 0) =>
              /\ exit_code = 0
              /\ \A f \in requested : files[PathOf(f)] = cli_output(f)

\* main returned 0 after writing the mind map of a result without
\* highlights over an old file.
C19_Witness ==
    /\ spc = "done"
    /\ exit_code = 0
    /\ Extracted
    /\ data.total_highlights = 0
    /\ requested = {"xmind"}
    /\ files["out.json"] = OldFile("out.json")
    /\ Len(files["out.xmind"].content.rootTopic.children) = 1

(***************************************************************************)
(* One call of _get_highlight_text or of _extract_highlight_data on one    *)
(* annotation of page 1.                                                   *)
(***************************************************************************)
\* A mapping where a colour list is expected.
DictColor == [tag |-> "dict", comps |-> <<>>]

\* What annot.colors may hold under "stroke" and under "fill".
StrokeInputs ==
    {Absent, NoneColor, DictColor, Seq3(100, 0, 0),
     [tag |-> "seq", comps |-> <<50>>],
     [tag |-> "seq", comps |-> <<30, 60>>],
     [tag |-> "seq", comps |-> <<150, 50, -20, 0>>]}

FillInputs == {Absent, NoneColor, DictColor, Seq3(0, 0, 100)}

\* Two quads on the lines y 20..21 and y 21..22.
TwoQuads ==
    << <<10, 20>>, <<30, 20>>, <<10, 21>>, <<30, 21>>,
       <<10, 21>>, <<25, 21>>, <<10, 22>>, <<25, 22>> >>

Quad1 == <<10, 20, 30, 21>>

Quad2 == <<10, 21, 25, 22>>

\* The page texts and quad points of an annotation: [raises, vertices,
\* page_text, retry_text].
Recovery(raises, vertices, page_text, retry_text) ==
    [raises |-> raises, vertices |-> vertices,
     page_text |-> page_text, retry_text |-> retry_text]

RecoveryInputs ==
    LET pts(q) == [none |-> FALSE, pts |-> q]
        at(clip, out) == [clip |-> clip, out |-> out]
        d == Returns(<<"d", " ", "e", "\n">>)
        f == Returns(<<" ", "f", " ">>)
        z == Returns(<<" ", "z", "\n">>)
        blank == Returns(<<" ", "\n">>)
    IN { \* no quads: the bounding rectangle, with text and blank
         Recovery({}, NoVertices, <<at(RectA, z)>>, z),
         Recovery({}, NoVertices, <<at(RectA, blank)>>, blank),
         Recovery({}, [none |-> TRUE, pts |-> <<>>], <<at(RectA, z)>>, z),
         Recovery({}, pts(SubSeq(TwoQuads, 1, 3)), <<at(RectA, z)>>, z),
         \* two quads with text and a trailing incomplete chunk
         Recovery({}, pts(TwoQuads \o << <<0, 0>>, <<1, 1>> >>),
                  <<at(Quad1, d), at(Quad2, f), at(RectA, z)>>, z),
         \* the first quad blank, the second with text
         Recovery({}, pts(TwoQuads), <<at(Quad1, blank), at(Quad2, f), at(RectA, z)>>, z),
         \* both quads blank
         Recovery({}, pts(TwoQuads), <<at(Quad1, blank), at(Quad2, blank), at(RectA, z)>>, z),
         \* the second quad raises after the first gave a fragment
         Recovery({}, pts(TwoQuads), <<at(Quad1, d), at(Quad2, Raises), at(RectA, z)>>, z),
         Recovery({}, pts(TwoQuads), <<at(Quad1, d), at(Quad2, Raises), at(RectA, z)>>, Raises),
         \* the bounding-rectangle query raises, the retry answers or raises
         Recovery({}, NoVertices, <<at(RectA, Raises)>>, z),
         Recovery({}, NoVertices, <<at(RectA, Raises)>>, Raises),
         \* reading annot.vertices raises; reading annot.rect raises as well
         Recovery({"vertices"}, NoVertices, <<at(RectA, z)>>, z),
         Recovery({"vertices", "rect"}, NoVertices, <<at(RectA, z)>>, z) }

NormalizerInputs ==
    {[raises     |-> t.raises,
      type       |-> HighlightType,
      vertices   |-> t.vertices,
      rect       |-> RectA,
      colors     |-> [stroke |-> stroke, fill |-> fill],
      info       |-> NoInfo,
      page_text  |-> t.page_text,
      retry_text |-> t.retry_text] :
        t \in RecoveryInputs, stroke \in StrokeInputs, fill \in FillInputs}

InitNormalize ==
    /\ ExtractorIdle
    /\ ColorsIdle
    /\ FormatterIdle
    /\ SessionIdle
    /\ npc = "called"
    /\ annotation \in NormalizerInputs
    /\ nret = Nothing

\* self._get_highlight_text(page, annot)
GetHighlightText ==
    /\ npc = "called"
    /\ nret' = [none |-> FALSE, text |-> get_highlight_text(annotation)]
    /\ npc' = "text"
    /\ UNCHANGED annotation
    /\ UNCHANGED <<extractor_vars, classifier_vars, formatter_vars, session_vars>>

\* self._extract_highlight_data(page, annot, 1)
ExtractHighlightData ==
    /\ npc = "called"
    /\ nret' = extract_highlight_data(annotation, 1)
    /\ npc' = "data"
    /\ UNCHANGED annotation
    /\ UNCHANGED <<extractor_vars, classifier_vars, formatter_vars, session_vars>>

NextNormalize ==
    \/ GetHighlightText
    \/ ExtractHighlightData

SpecNormalize == InitNormalize /\ [][NextNormalize]_vars

\* A colour is there: the key is in annot.colors and its value is not None.
Present(c) == c.tag \notin {"absent", "none"}

\* The colour the claim names for the annotation.
NamedColor(a) ==
    LET chosen == IF Present(a.colors.stroke) THEN a.colors.stroke
                  ELSE IF Present(a.colors.fill) THEN a.colors.fill
                  ELSE DefaultYellow
    IN IF chosen.tag = "dict" THEN DefaultYellow ELSE chosen

\* The chunks of 4 points, a trailing incomplete chunk left out.
Chunks(a) ==
    [k \in 1..(Len(a.vertices.pts) \div 4) |->
        SubSeq(a.vertices.pts, 4 * k - 3, 4 * k)]

\* The axis-aligned bounding box of a set of points.
BoundingBox(chunk) ==
    LET xs == {chunk[i][1] : i \in 1..Len(chunk)}
        ys == {chunk[i][2] : i \in 1..Len(chunk)}
        min(S) == CHOOSE m \in S : \A x \in S : m <= x
        max(S) == CHOOSE m \in S : \A x \in S : m >= x
    IN <<min(xs), min(ys), max(xs), max(ys)>>

\* annot.vertices is read and holds at least one chunk of 4 points.
UsableQuads(a) ==
    /\ "vertices" \notin a.raises
    /\ ~a.vertices.none
    /\ Len(a.vertices.pts) >= 4

\* The page-text query of some chunk raises.
SomeQuadRaises(a) ==
    /\ UsableQuads(a)
    /\ \E k \in 1..Len(Chunks(a)) : get_text(a, BoundingBox(Chunks(a)[k])).raises

\* The trimmed page texts of the chunks, in quad order, the empty ones
\* left out.
Fragments(a) ==
    LET texts == [k \in 1..Len(Chunks(a)) |->
                     strip(get_text(a, BoundingBox(Chunks(a)[k])).text)]
    IN SelectSeq(texts, LAMBDA t : t # <<>>)

\* The bounding-rectangle query is what the primary path comes down to.
RectPath(a) ==
    /\ "vertices" \notin a.raises
    /\ ~SomeQuadRaises(a)
    /\ ~UsableQuads(a) \/ Fragments(a) = <<>>

\* The primary path raises.
PrimaryRaises(a) ==
    \/ "vertices" \in a.raises
    \/ SomeQuadRaises(a)
    \/ RectPath(a) /\ ("rect" \in a.raises \/ get_text(a, a.rect).raises)

\* What the retry of the except branch gives.
RetryText(a) ==
    IF "rect" \in a.raises \/ a.retry_text.raises THEN <<>>
    ELSE strip(a.retry_text.text)

\* The text is recovered and rectangle and info are read.
TextAndAttributes(a) ==
    /\ strip(get_highlight_text(a)) # <<>>
    /\ a.raises \cap {"colors", "rect", "info"} = {}

\* C22 as stated: the colour is the stroke colour when there is one, else
\* the fill colour when there is one, else the default yellow, a mapping
\* being replaced by the default yellow; in each case the annotation is
\* kept when its text is not empty.
C22_ColorResolution ==
    (npc = "data" /\ TextAndAttributes(annotation)) =>
        /\ ~nret.none
        /\ nret.h.color = three_components(NamedColor(annotation).comps)

\* C23: the colour of a kept highlight has three components: a resolved
\* value of 1 component v becomes [v, v, v], one of 2 components [a, b]
\* becomes [a, b, 0.0], one of more than 3 is cut to its first 3, and one
\* of 3 is kept as it is.
C23_ThreeComponents ==
    (npc = "data" /\ ~nret.none) =>
        LET raw   == NamedColor(annotation).comps
            color == nret.h.color
        IN /\ Len(color) = 3
           /\ Len(raw) = 1 => color = <<raw[1], raw[1], raw[1]>>
           /\ Len(raw) = 2 => color = <<raw[1], raw[2], 0>>
           /\ Len(raw) > 3 => color = SubSeq(raw, 1, 3)
           /\ Len(raw) = 3 => color = raw

\* A gray stroke of one component was broadcast.
C23_Witness ==
    /\ npc = "data"
    /\ ~nret.none
    /\ annotation.colors.stroke = [tag |-> "seq", comps |-> <<50>>]
    /\ nret.h.color = <<50, 50, 50>>
    /\ nret.h.color_name = "Gray"

(***************************************************************************)
(* Vocabulary of the classifier's properties.                              *)
(***************************************************************************)
\* The first three components of the argument.
Triple == SubSeq(rgb.comps, 1, 3)

\* max(r, g, b) - min(r, g, b)
Saturation ==
    LET S == {Triple[k] : k \in 1..3}
    IN (CHOOSE m \in S : \A x \in S : m >= x) - (CHOOSE m \in S : \A x \in S : m <= x)

\* The table entries in candidacy for the argument.
Candidates ==
    {i \in 1..Len(known_colors) :
        ~(Saturation > SaturationThreshold /\ known_colors[i].name \in grayscale_names)}

\* The squared Euclidean distance of the argument to table entry i.
SquaredDistance(i) ==
    LET d(k) == Triple[k] - known_colors[i].rgb[k]
    IN d(1) * d(1) + d(2) * d(2) + d(3) * d(3)

\* C24: for an argument of at least three components the name returned is
\* that of a candidate at minimal squared Euclidean distance, and of the
\* candidates at that distance it is the first of the table; so Lime,
\* Maroon and Navy, which repeat the RGB of an earlier entry, are never
\* returned.
C24_NearestFirst ==
    (cpc = "returned" /\ ~rgb.none /\ Len(rgb.comps) >= 3) =>
        /\ \E i \in Candidates :
              /\ known_colors[i].name = closest_name
              /\ \A j \in Candidates :
                    /\ SquaredDistance(i) <= SquaredDistance(j)
                    /\ SquaredDistance(j) = SquaredDistance(i) => i <= j
        /\ closest_name \notin {"Lime", "Maroon", "Navy"}

\* (0.75, 0, 0) is as far from Red as from Dark Red and Maroon: Red, the
\* first of the three, is returned.
C24_Witness ==
    /\ cpc = "returned"
    /\ rgb.comps = <<75, 0, 0>>
    /\ SquaredDistance(2) = SquaredDistance(17)
    /\ SquaredDistance(2) = SquaredDistance(25)
    /\ closest_name = "Red"

\* The name returned is that of a table entry nearest to the argument
\* among the entries of S.
NearestAmong(S) ==
    \E i \in S :
        /\ known_colors[i].name = closest_name
        /\ \A j \in S : SquaredDistance(i) <= SquaredDistance(j)

\* C25: for an argument whose saturation max - min is above 0.15 none of
\* Gray, Light Gray, Black and White is returned; for one whose saturation
\* is at most 0.15 the four stay in candidacy: the name returned is that of
\* a nearest entry of the whole table.
C25_GrayscaleCandidacy ==
    (cpc = "returned" /\ ~rgb.none /\ Len(rgb.comps) >= 3) =>
        /\ Saturation > SaturationThreshold => closest_name \notin grayscale_names
        /\ Saturation <= SaturationThreshold =>
              NearestAmong(1..Len(known_colors))

\* (0, 0, 0.15) has a saturation of exactly 0.15 and is named Black.
C25_Witness ==
    /\ cpc = "returned"
    /\ rgb.comps = <<0, 0, 15>>
    /\ Saturation = SaturationThreshold
    /\ closest_name = "Black"

(***************************************************************************)
(* Properties of text recovery.                                            *)
(***************************************************************************)
RECURSIVE SpaceSeparated(_)
\* The parts in order with one space between neighbours.
SpaceSeparated(parts) ==
    IF parts = <<>> THEN <<>>
    ELSE IF Tail(parts) = <<>> THEN Head(parts)
    ELSE Head(parts) \o <<" ">> \o SpaceSeparated(Tail(parts))

\* C26: when quad points are supplied and no query raises, the text is made
\* of the chunks of 4 points (a trailing incomplete chunk left out): the
\* page text of each chunk's bounding box, trimmed, the empty ones dropped,
\* joined by single spaces in quad order.
C26_QuadFragments ==
    (/\ npc = "text"
     /\ UsableQuads(annotation)
     /\ ~SomeQuadRaises(annotation)
     /\ Fragments(annotation) # <<>>) =>
        nret.text = SpaceSeparated(Fragments(annotation))

\* Ten points: two quads with text and two points over.
C26_Witness ==
    /\ npc = "text"
    /\ Len(annotation.vertices.pts) = 10
    /\ Len(Chunks(annotation)) = 2
    /\ Fragments(annotation) = << <<"d", " ", "e">>, <<"f">> >>
    /\ nret.text = <<"d", " ", "e", " ", "f">>

\* C27: text recovery returns a text in every case: the trimmed text of
\* the bounding rectangle when no quad is usable or no fragment was
\* collected; when the primary path raises, the trimmed answer of the one
\* retry of the bounding-rectangle query, and the empty string when the
\* retry raises too.
C27_Fallbacks ==
    npc = "text" =>
        /\ ~nret.none
        /\ (RectPath(annotation) /\ ~PrimaryRaises(annotation)) =>
              nret.text = strip(get_text(annotation, annotation.rect).text)
        /\ PrimaryRaises(annotation) =>
              nret.text = IF "rect" \in annotation.raises
                             \/ annotation.retry_text.raises
                          THEN <<>>
                          ELSE strip(annotation.retry_text.text)

\* The bounding-rectangle query raised and its retry answered " z\n".
C27_Witness ==
    /\ npc = "text"
    /\ RectPath(annotation)
    /\ get_text(annotation, annotation.rect).raises
    /\ annotation.retry_text = Returns(<<" ", "z", "\n">>)
    /\ nret.text = <<"z">>

\* The fragments of the chunks before the first chunk whose query raises.
EarlierFragments(a) ==
    LET raising == {k \in 1..Len(Chunks(a)) :
                       get_text(a, BoundingBox(Chunks(a)[k])).raises}
        first == CHOOSE k \in raising : \A j \in raising : k <= j
        texts == [k \in 1..(first - 1) |->
                     strip(get_text(a, BoundingBox(Chunks(a)[k])).text)]
    IN SelectSeq(texts, LAMBDA t : t # <<>>)

\* The text t occurs in the text s.
Occurs(t, s) ==
    \E i \in 1..(Len(s) - Len(t) + 1) : SubSeq(s, i, i + Len(t) - 1) = t

\* C30: when the query of a quad raises after earlier quads gave
\* fragments, the text returned is the trimmed answer of the
\* bounding-rectangle retry, or empty when the retry raises; the earlier
\* fragments are no part of it.
C30_FragmentsDiscarded ==
    (/\ npc = "text"
     /\ SomeQuadRaises(annotation)
     /\ EarlierFragments(annotation) # <<>>) =>
        /\ nret.text = RetryText(annotation)
        /\ \A k \in 1..Len(EarlierFragments(annotation)) :
              ~Occurs(EarlierFragments(annotation)[k], nret.text)

\* The first quad gave "d e", the second raised, the retry answered "z".
C30_Witness ==
    /\ npc = "text"
    /\ SomeQuadRaises(annotation)
    /\ EarlierFragments(annotation) = << <<"d", " ", "e">> >>
    /\ ~annotation.retry_text.raises
    /\ nret.text = <<"z">>

(***************************************************************************)
(* Properties of the two-level documents.                                  *)
(***************************************************************************)
\* How often x occurs in the sequence.
Count(q, x) == Cardinality({n \in 1..Len(q) : q[n] = x})

RECURSIVE LeafCount(_)
\* The number of texts of an outline.
LeafCount(outline) ==
    IF outline = <<>> THEN 0
    ELSE LET groups == Head(outline).groups
             lens == [j \in 1..Len(groups) |-> Len(groups[j].texts)]
             sum[j \in 0..Len(groups)] == IF j = 0 THEN 0 ELSE sum[j - 1] + lens[j]
         IN sum[Len(groups)] + LeafCount(Tail(outline))

\* The page or the colour name of a highlight.
LevelKey(h, by) == IF by = "page" THEN h.page ELSE h.color_name

\* The outline has as many texts as hs has highlights, and each highlight
\* stands, as often as it occurs in hs, in the inner group of its own page
\* and colour name.
Conserves(outline, by, hs) ==
    /\ LeafCount(outline) = Len(hs)
    /\ \A n \in 1..Len(hs) :
          \E i \in 1..Len(outline) :
             /\ outline[i].title = group_title(by, LevelKey(hs[n], by))
             /\ \E j \in 1..Len(outline[i].groups) :
                   /\ outline[i].groups[j].title
                         = group_title(inner_of(by), LevelKey(hs[n], inner_of(by)))
                   /\ Count(outline[i].groups[j].texts, hs[n].text)
                         = Cardinality({m \in 1..Len(hs) :
                               /\ hs[m].page = hs[n].page
                               /\ hs[m].color_name = hs[n].color_name
                               /\ hs[m].text = hs[n].text})

\* C28: for a result with highlights and group_by 'page' or 'color' the
\* Markdown has exactly one block-quote line per highlight and the mind map
\* exactly one leaf per highlight, each under the outer and inner group of
\* its own page and colour name, none dropped and none rendered twice.
C28_HighlightsConserved ==
    (fpc = "returned" /\ group_by \in {"page", "color"} /\ data.highlights # <<>>) =>
        /\ formatter = "_generate_markdown" =>
              /\ Cardinality({i \in 1..Len(ret) : IsQuote(ret[i])})
                    = Len(data.highlights)
              /\ Conserves(MarkdownOutline(ret, 1, <<>>), group_by, data.highlights)
        /\ formatter = "XMindExporter.export" =>
              Conserves(TreeOutline(files["out.xmind"].content.rootTopic),
                        group_by, data.highlights)

\* The same highlight three times: one group with three leaves.
C28_Witness ==
    /\ ReturnedFrom("XMindExporter.export")
    /\ group_by = "page"
    /\ Len(data.highlights) = 3
    /\ data.highlights[1] = data.highlights[2]
    /\ data.highlights[2] = data.highlights[3]
    /\ LET outline == TreeOutline(files["out.xmind"].content.rootTopic)
       IN /\ Len(outline) = 1
          /\ Len(outline[1].groups) = 1
          /\ Len(outline[1].groups[1].texts) = 3

\* C29: the Markdown exporter does not validate group_by: for a result
\* with highlights every group_by other than 'page', 'invalid' and None
\* among them, raises nothing and writes the document that group_by
\* 'color' gives, colour sections outside and page subsections inside.
C29_AnyOtherGroupByIsColor ==
    (/\ ReturnedFrom("NotionExporter.export")
     /\ group_by # "page"
     /\ data.highlights # <<>>) =>
        /\ fexc = "none"
        /\ files["out.md"].exists
        /\ NestedAscending(MarkdownOutline(files["out.md"].content, 1, <<>>),
                           "color", data.highlights)
        /\ files["out.md"].content = generate_markdown(data, "color")

\* The document of group_by "invalid" for two highlights of two colours,
\* written over an old file.
C29_Witness ==
    /\ ReturnedFrom("NotionExporter.export")
    /\ group_by = "invalid"
    /\ Len(data.highlights) = 2
    /\ fexc = "none"
    /\ files["out.xmind"] = OldFile("out.xmind")
    /\ files["out.md"] # OldFile("out.md")
    /\ LET outline == MarkdownOutline(files["out.md"].content, 1, <<>>)
       IN /\ Len(outline) = 2
          /\ outline[1].title = <<"Red">>
          /\ outline[2].title = <<"Yellow">>

====
